---- MODULE Spec2Model ----
(***************************************************************************)
(* Model of the compliance risk service (ai-service/app):                  *)
(*   - llm_sanctions_risk.py : rule baseline and LLM overlay on top of it  *)
(*   - pure_risk_scorer.py   : deterministic scorer and its tables         *)
(*   - bulk_risk_engine.py   : bulk engine with the device-usage index     *)
(*   - bulk_orchestrator.py  : one engine per batch run                    *)
(*   - sanction_matching.py  : exact / fuzzy / phonetic name matching      *)
(*   - sanctions_loader.py   : the name normalizer and the lazy data load  *)
(*   - main.py, ingest_sanctions.py : process start and /risk/from-db      *)
(*   - agent_sanctions_decision.py, agent_risk_explainer.py : the advisory *)
(*     calls inside the loop of process_bulk_excel                         *)
(*   - storage.py            : the in-memory chunk store and get_top_k     *)
(*   - bulk_sanctions_matcher.py : the candidates handed to the decision   *)
(*   - excel_processor.py    : the row loop of process_excel_file          *)
(*                                                                         *)
(* Python strings whose characters are inspected by the code (names,       *)
(* countries, flags, bands) are sequences of one-character strings, so     *)
(* upper(), strip() and split() are computed.  Strings that the code only  *)
(* compares for equality (reason texts) are TLA+ strings.                  *)
(***************************************************************************)
EXTENDS Integers, Sequences, FiniteSets, TLC

VARIABLES
    \* ---- llm_score_sanctions (llm_sanctions_risk.py) ----
    profile,        \* arguments of the call: fatf_key, matches, local_blacklist_flag, is_pep
    advisory,       \* outcome of generate_answer for this call
    baseline,       \* the baseline dict object (the overlay may append to its reasons)
    result,         \* the dict returned by llm_score_sanctions
    rpc,            \* "start" before the call, "returned" after it
    \* ---- BulkRiskEngine / PureRiskScorer (bulk_risk_engine.py, pure_risk_scorer.py) ----
    ri,             \* the risk_input record of the current or last assess call
    device_usage,   \* BulkRiskEngine._device_usage of the engine of the current batch run
    engine_result,  \* the dict BulkRiskEngine.assess returned for ri
    pure_result,    \* the dict PureRiskScorer.assess_risk returned for ri.rawRow
    epc,            \* "input", "assessed", "scored" for one record; "batch" in a batch run
    registered,     \* history: (deviceId, customerNo) pairs that reached the tracker
                    \* since the engine was created or reset
    lastCount,      \* reuse_count of the last assess call, -1 when it registered nothing
    lastOp,         \* last operation on the engine: "new", "assess", "reset"
    lastRepeat,     \* history: the last assess call handed the tracker a pair it already held
    prevMax,        \* history: largest list the index held when it was last replaced or reset
    \* ---- match_sanctions_by_name (sanction_matching.py) ----
    full_name,      \* the name to screen
    sanctions,      \* data.sanctions: the names of the reference entries, in list order
    results,       \* the list match_sanctions_by_name returned
    mpc,            \* "start" before the call, "returned" after it
    \* ---- concurrent calls of BulkRiskEngine._score_device_reuse on one engine ----
    tpc,            \* per thread: the statement it executes next
    tcustomer,      \* per thread: its customer_no (all threads use device d1)
    tcount,         \* per thread: its reuse_count
    tseen,          \* history, per thread: sizes of d1's list while the call was running
    \* ---- the text normalizers and the FATF classifier on their own ----
    text_a,         \* a string handed to the function
    text_b,         \* a second string handed to the same function
    text_out,       \* what the function returned for text_a, for text_b and for its own
                    \* result on text_a
    xpc,            \* "start" before the calls, "returned" after them
    \* ---- process start and the /risk/from-db endpoint (main.py) ----
    files,          \* the reference files present under sunction-lists/: "fatf", "un", "eu"
    embed_ok,       \* whether rag_engine.embed answers (FALSE: every call raises)
    doc_sources,    \* the reference files that have chunks in storage.doc_store
    sanctions_cache,\* sanctions_loader._SANCTIONS_CACHE
    spc,            \* "startup" while the startup event is pending, "serving" after it
    answers,        \* the responses given to the requests so far, in order
    \* ---- one run of process_bulk_excel (bulk_orchestrator.py) ----
    inputs,         \* parsed["customers"]: the records of the upload, in row order
    pos,            \* index of the record the loop of line 32 handles next
    run_usage,      \* _device_usage of the BulkRiskEngine this run created
    customers_output, \* the list customers_output
    advice,         \* history: per handled record, what assess returned, the
                    \* engine_result dict as the loop held it after lines 36-39, and
                    \* how the two advisory calls ended
    bpc,            \* "loop" inside the loop, "returned" after the return statement,
                    \* "raised" when an exception left the function
    \* ---- InMemoryDocStore (storage.py) ----
    chunks,         \* doc_store.chunks: the embedding of every stored chunk, in order
    top_chunks,     \* the last call of get_top_k: its k, the number of chunks stored
                    \* then, whether it raised, and the list it returned
    \* ---- sanctions_loader.py: the cache while a refresh runs beside a request ----
    objects,        \* the SanctionsDataset objects built so far; object n is objects[n]
    cache_ref,      \* _SANCTIONS_CACHE: 0 for None, else the number of an object
    qpc,            \* position of the thread inside match_sanctions_by_name
    qnew,           \* the object load_sanctions built for the request's get_sanctions
    qdata,          \* the local variable data of match_sanctions_by_name
    qi,             \* index of the loop over data.sanctions
    compared,       \* history: the entries the loop has compared the name with
    obtained,       \* history: the entries qdata held when get_sanctions returned
    fpc,            \* position of the thread inside refresh_sanctions
    fnew,           \* the object load_sanctions built for refresh_sanctions
    refreshes,      \* number of refresh_sanctions calls started
    \* ---- one call of explain_risk (agent_risk_explainer.py) ----
    explain_engine, \* the argument engine_result
    explain_llm,    \* how call_azure_chat_json ended: it raised, or the JSON value
    explain_out,    \* what explain_risk returned
    ypc,            \* "start" before the call, "returned" after it
    \* ---- one call of find_sanction_candidates (bulk_sanctions_matcher.py) ----
    top_candidates, \* the list find_sanction_candidates returned
    \* ---- ExcelCustomerProcessor.process_excel_file (excel_processor.py) ----
    sheet_rows,     \* the data rows below the header row, in sheet order
    row_idx,        \* the row the loop of line 309 handles next
    written,        \* per data row, what _write_results wrote into its output cells
    processed_count,\* the counter processed_count
    error_count,    \* the counter error_count
    zpc             \* "loop" inside the loop, "returned" after wb.save, "raised" when
                    \* an exception left the function

reconVars == <<profile, advisory, baseline, result, rpc>>

engineVars == <<ri, device_usage, engine_result, pure_result, epc, registered, lastCount,
                lastOp, lastRepeat, prevMax>>

matchVars == <<full_name, sanctions, results, mpc>>

concVars == <<tpc, tcustomer, tcount, tseen>>

textVars == <<text_a, text_b, text_out, xpc>>

startVars == <<files, embed_ok, doc_sources, sanctions_cache, spc, answers>>

bulkVars == <<inputs, pos, run_usage, customers_output, advice, bpc>>

storeVars == <<chunks, top_chunks>>

snapVars == <<objects, cache_ref, qpc, qnew, qdata, qi, compared, obtained, fpc, fnew, refreshes>>

explainVars == <<explain_engine, explain_llm, explain_out, ypc>>

candVars == <<top_candidates>>

excelVars == <<sheet_rows, row_idx, written, processed_count, error_count, zpc>>

vars == <<reconVars, engineVars, matchVars, concVars, textVars, startVars, bulkVars, storeVars, snapVars, explainVars, candVars, excelVars>>

\* what the operations of one part leave alone
notRecon  == <<engineVars, matchVars, concVars, textVars, startVars, bulkVars, storeVars, snapVars, explainVars, candVars, excelVars>>
notEngine == <<reconVars, matchVars, concVars, textVars, startVars, bulkVars, storeVars, snapVars, explainVars, candVars, excelVars>>
notMatch  == <<reconVars, engineVars, concVars, textVars, startVars, bulkVars, storeVars, snapVars, explainVars, candVars, excelVars>>
notConc   == <<reconVars, matchVars, ri, engine_result, pure_result, epc, registered,
               lastCount, lastOp, lastRepeat, prevMax, textVars, startVars, bulkVars, storeVars, snapVars, explainVars, candVars, excelVars>>
notText   == <<reconVars, engineVars, matchVars, concVars, startVars, bulkVars, storeVars, snapVars, explainVars, candVars, excelVars>>
notStart  == <<reconVars, engineVars, matchVars, concVars, textVars, bulkVars, storeVars, snapVars, explainVars, candVars, excelVars>>
notBulk   == <<reconVars, engineVars, matchVars, concVars, textVars, startVars, storeVars, snapVars, explainVars, candVars, excelVars>>
notStore  == <<reconVars, engineVars, matchVars, concVars, textVars, startVars, bulkVars, snapVars, explainVars, candVars, excelVars>>
notSnap   == <<reconVars, engineVars, matchVars, concVars, textVars, startVars, bulkVars, storeVars, explainVars, candVars, excelVars>>
notExplain == <<reconVars, engineVars, matchVars, concVars, textVars, startVars, bulkVars, storeVars, snapVars, candVars, excelVars>>
notMatchCand == <<reconVars, engineVars, concVars, textVars, startVars, bulkVars, storeVars,
                  snapVars, explainVars, excelVars>>
notCand   == <<reconVars, engineVars, matchVars, concVars, textVars, startVars, bulkVars, storeVars, snapVars, explainVars, excelVars>>
notExcel  == <<reconVars, engineVars, matchVars, concVars, textVars, startVars, bulkVars, storeVars, snapVars, explainVars, candVars>>

(***************************************************************************)
(* Strings as character sequences                                          *)
(***************************************************************************)
LowerAlpha ==
    <<"a","b","c","d","e","f","g","h","i","j","k","l","m",
      "n","o","p","q","r","s","t","u","v","w","x","y","z">>

UpperAlpha ==
    <<"A","B","C","D","E","F","G","H","I","J","K","L","M",
      "N","O","P","Q","R","S","T","U","V","W","X","Y","Z">>

\* str.upper() on one character
UpperChar(c) ==
    IF \E i \in 1..Len(LowerAlpha) : LowerAlpha[i] = c
    THEN UpperAlpha[CHOOSE i \in 1..Len(LowerAlpha) : LowerAlpha[i] = c]
    ELSE c

\* str.lower() on one character
LowerChar(c) ==
    IF \E i \in 1..Len(UpperAlpha) : UpperAlpha[i] = c
    THEN LowerAlpha[CHOOSE i \in 1..Len(UpperAlpha) : UpperAlpha[i] = c]
    ELSE c

\* str.upper()
Upper(s) == [i \in 1..Len(s) |-> UpperChar(s[i])]

\* str.lower()
Lower(s) == [i \in 1..Len(s) |-> LowerChar(s[i])]

\* the characters str.strip() and str.split() treat as whitespace
IsSpace(c) == c \in {" ", "\t"}

\* str.strip()
Strip(s) ==
    LET nonsp == {i \in 1..Len(s) : ~IsSpace(s[i])}
    IN  IF nonsp = {} THEN <<>>
        ELSE LET lo == CHOOSE i \in nonsp : \A j \in nonsp : i <= j
                 hi == CHOOSE i \in nonsp : \A j \in nonsp : i >= j
             IN  SubSeq(s, lo, hi)

\* " ".join(s.split()): whitespace runs collapsed to one space, ends trimmed
RECURSIVE JoinSplit(_)
JoinSplit(s) ==
    IF s = <<>> THEN <<>>
    ELSE IF IsSpace(Head(s)) THEN JoinSplit(Tail(s))
    ELSE LET rest == Tail(s)
         IN  IF rest = <<>> THEN <<Head(s)>>
             ELSE IF IsSpace(Head(rest))
                  THEN LET more == JoinSplit(rest)
                       IN  IF more = <<>> THEN <<Head(s)>>
                           ELSE <<Head(s), " ">> \o more
                  ELSE <<Head(s)>> \o JoinSplit(rest)

Range(f) == {f[i] : i \in DOMAIN f}

NoDuplicates(s) == \A i, j \in 1..Len(s) : i # j => s[i] # s[j]

Max(a, b) == IF a >= b THEN a ELSE b

Min(a, b) == IF a <= b THEN a ELSE b

(***************************************************************************)
(* llm_sanctions_risk.py                                                   *)
(***************************************************************************)
GREEN  == <<"G","R","E","E","N">>
YELLOW == <<"Y","E","L","L","O","W">>
RED    == <<"R","E","D">>

\* reason texts of _baseline_sanctions_risk (residency country written R)
ReasonPep     == "Customer is a Politically Exposed Person (PEP)."
ReasonNone    == "No FATF/sanctions/local blacklist/PEP flags detected."
ReasonLlmFailed   == "LLM_FAILED_USED_BASELINE_ONLY"
ReasonOverlayError == "LLM_OVERLAY_ERROR_"

\* ', '.join(sorted(set(match_type ...))) inside the sanctions reason
MatchTypesText(matches) ==
    LET ts == Range(matches)
    IN  CASE ts = {"exact"}                      -> "exact"
          [] ts = {"fuzzy"}                      -> "fuzzy"
          [] ts = {"phonetic"}                   -> "phonetic"
          [] ts = {"exact", "fuzzy"}             -> "exact, fuzzy"
          [] ts = {"exact", "phonetic"}          -> "exact, phonetic"
          [] ts = {"fuzzy", "phonetic"}          -> "fuzzy, phonetic"
          [] OTHER                               -> "exact, fuzzy, phonetic"

ReasonMatches(matches) ==
    CASE MatchTypesText(matches) = "exact"    -> "Customer name has match in UN/EU sanctions list (exact)"
      [] MatchTypesText(matches) = "fuzzy"    -> "Customer name has match in UN/EU sanctions list (fuzzy)"
      [] MatchTypesText(matches) = "phonetic" -> "Customer name has match in UN/EU sanctions list (phonetic)"
      [] OTHER -> "Customer name has match in UN/EU sanctions list (several)"

\* _baseline_sanctions_risk: p.fatf_key is str(fatf_cat.key).lower(), or "none" when
\* get_fatf_category returned None
_baseline_sanctions_risk(p, matches, local_blacklist_flag) ==
    LET s0 == [risk_score |-> 10, risk_band |-> GREEN, reasons |-> <<>>]
        \* 1) FATF country risk
        s1 == IF p.fatf_key = "none" THEN s0
              ELSE IF p.fatf_key = "black_list"
                   THEN [risk_score |-> Max(s0.risk_score, 95), risk_band |-> RED,
                         reasons |-> Append(s0.reasons,
                             "Customer residency country 'R' is in FATF black list.")]
              ELSE IF p.fatf_key = "grey_list"
                   THEN [risk_score |-> Max(s0.risk_score, 75), risk_band |-> YELLOW,
                         reasons |-> Append(s0.reasons,
                             "Customer residency country 'R' is in FATF grey list.")]
              ELSE [risk_score |-> Max(s0.risk_score, 40),
                    risk_band |-> IF s0.risk_band = GREEN THEN YELLOW ELSE s0.risk_band,
                    reasons |-> Append(s0.reasons,
                         "Customer residency country 'R' is in monitored FATF list.")]
        \* 2) sanctions matches of any type
        s2 == IF matches # <<>>
              THEN [risk_score |-> Max(s1.risk_score, 98), risk_band |-> RED,
                    reasons |-> Append(s1.reasons, ReasonMatches(matches))]
              ELSE s1
        \* 3) local blacklist
        s3 == IF local_blacklist_flag
              THEN [risk_score |-> Max(s2.risk_score, 99), risk_band |-> RED,
                    reasons |-> Append(s2.reasons, "Customer is on local blacklist.")]
              ELSE s2
        \* 4) PEP
        s4 == IF p.is_pep
              THEN [risk_score |-> Max(s3.risk_score, 80),
                    risk_band |-> IF s3.risk_band # RED THEN YELLOW ELSE s3.risk_band,
                    reasons |-> Append(s3.reasons, ReasonPep)]
              ELSE s3
    IN  IF s4.reasons = <<>>
        THEN [risk_score |-> 10, risk_band |-> GREEN, reasons |-> <<ReasonNone>>]
        ELSE s4

\* ---- values found in the JSON object the LLM answered with ----
Missing      == [t |-> "missing", v |-> 0]
IntVal(n)    == [t |-> "int", v |-> n]        \* int(x) succeeds with value n

StrItem(s)   == [t |-> "str", v |-> s]
IntItem(s)   == [t |-> "int", v |-> s]        \* a JSON number whose str() is s
\* str(r)
Str(item)    == item.v

NoReasons      == [t |-> "missing", v |-> <<>>]   \* key absent, null or empty
ListOf(items)  == [t |-> "list", v |-> items]
Scalar(item)   == [t |-> "scalar", v |-> <<item>>]

NoBand         == [t |-> "missing", v |-> <<>>]
BandStr(s)     == [t |-> "str", v |-> s]

band_rank(b) ==
    CASE b = GREEN  -> 0
      [] b = YELLOW -> 1
      [] b = RED    -> 2
      [] OTHER      -> 1

\* mutant: every LLM reason is appended, present or not
MergeReasonsNoDedup(reasons, llm_reasons) ==
    reasons \o [i \in 1..Len(llm_reasons) |-> Str(llm_reasons[i])]

\* step 6 of the overlay: merge the LLM reasons into a copy of the baseline reasons
RECURSIVE MergeReasons(_, _)
MergeReasons(reasons, llm_reasons) ==
    IF llm_reasons = <<>> THEN reasons
    ELSE LET r_str == Str(Head(llm_reasons))
         IN  MergeReasons(IF r_str \in Range(reasons) THEN reasons
                          ELSE Append(reasons, r_str),
                          Tail(llm_reasons))

\* steps 4 and 5 of the overlay: llm_score after int() and clamping
LlmScore(parsedScore, b) ==
    LET raw == IF parsedScore.t = "int" THEN parsedScore.v ELSE b.risk_score
    IN  Max(0, Min(100, raw))

\* mutant: the LLM score replaces the baseline score
FinalScoreLlmWins(b, llm_score) == llm_score

FinalScore(b, llm_score) == Max(b.risk_score, llm_score)

LlmBand(parsedBand, b) ==
    LET up == IF parsedBand.t = "missing" THEN Upper(b.risk_band) ELSE Upper(parsedBand.v)
    IN  IF up \in {GREEN, YELLOW, RED} THEN up ELSE b.risk_band

\* mutant: the LLM band replaces the baseline band
FinalBandLlmWins(b, llm_band) == llm_band

FinalBand(b, llm_band) ==
    IF band_rank(b.risk_band) >= band_rank(llm_band) THEN b.risk_band ELSE llm_band

LlmReasons(parsedReasons) == parsedReasons.v

\* mutant: the except branch of the JSON parsing lacks its return, so the function
\* runs on into the undefined name parsed and raises after the append
_llm_overlay_missing_return(b, adv) ==
    IF adv.kind = "raise"
    THEN [exc |-> TRUE, ret |-> b, base |-> b]
    ELSE IF adv.kind = "unparsable"
    THEN LET b2 == [b EXCEPT !.reasons = Append(@, ReasonLlmFailed)]
         IN  [exc |-> TRUE, ret |-> b2, base |-> b2]
    ELSE IF adv.score.t = "overflow"
    THEN [exc |-> TRUE, ret |-> b, base |-> b]
    ELSE [exc  |-> FALSE,
          ret  |-> [risk_score |-> FinalScore(b, LlmScore(adv.score, b)),
                    risk_band  |-> FinalBand(b, LlmBand(adv.band, b)),
                    reasons    |-> MergeReasons(b.reasons, LlmReasons(adv.reasons))],
          base |-> b]

\* _llm_overlay_on_top_of_baseline(profile, matches, baseline) with the outcome adv of
\* generate_answer.  exc: an exception leaves the function; ret: returned dict;
\* base: the baseline dict object after the call.
_llm_overlay_on_top_of_baseline(b, adv) ==
    IF adv.kind = "raise"
    THEN [exc |-> TRUE, ret |-> b, base |-> b]
    ELSE IF adv.kind = "unparsable"
    THEN LET b2 == [b EXCEPT !.reasons = Append(@, ReasonLlmFailed)]
         IN  [exc |-> FALSE, ret |-> b2, base |-> b2]
    ELSE IF adv.score.t = "overflow"
    THEN [exc |-> TRUE, ret |-> b, base |-> b]
    ELSE [exc  |-> FALSE,
          ret  |-> [risk_score |-> FinalScore(b, LlmScore(adv.score, b)),
                    risk_band  |-> FinalBand(b, LlmBand(adv.band, b)),
                    reasons    |-> MergeReasons(b.reasons, LlmReasons(adv.reasons))],
          base |-> b]

\* llm_score_sanctions
llm_score_sanctions(p, use_llm, adv) ==
    LET b == _baseline_sanctions_risk(p, p.matches, p.local_blacklist_flag)
    IN  IF ~use_llm THEN [ret |-> b, base |-> b]
        ELSE LET o == _llm_overlay_on_top_of_baseline(b, adv)
             IN  IF o.exc
                 THEN LET b2 == [o.base EXCEPT !.reasons = Append(@, ReasonOverlayError)]
                      IN  [ret |-> b2, base |-> b2]
                 ELSE [ret |-> o.ret, base |-> o.base]

\* ---- bounded inputs ----
MaxLlmReasons == 2

Profiles ==
    [fatf_key : {"none", "black_list", "grey_list", "monitored"},
     matches : {<<>>, <<"exact">>, <<"fuzzy", "phonetic">>},
     local_blacklist_flag : BOOLEAN, is_pep : BOOLEAN]

AdvItems == {StrItem("LLM: adverse media"), StrItem(ReasonPep), StrItem("7"), IntItem("7")}

SeqsUpTo(S, n) == UNION {[1..k -> S] : k \in 0..n}

AdvReasons ==
    {NoReasons} \cup {Scalar(i) : i \in AdvItems}
                \cup {ListOf(l) : l \in SeqsUpTo(AdvItems, MaxLlmReasons) \ {<<>>}}

NoAdvisory == [kind |-> "none", score |-> Missing, band |-> NoBand, reasons |-> NoReasons]

\* an answer that holds a JSON object.  risk_score: absent, a value int() rejects with
\* ValueError / TypeError ("nonint"), Infinity, on which int() raises OverflowError
\* ("overflow"), or an integer
Parsed ==
    [kind : {"parsed"},
     score : {Missing, [t |-> "nonint", v |-> 0], [t |-> "overflow", v |-> 0]}
                 \cup {IntVal(n) : n \in {-5, 0, 10, 60, 97, 100, 250}},
     band : {NoBand} \cup {BandStr(s) : s \in {GREEN, Lower(YELLOW), RED,
                                                 <<"P","U","R","P","L","E">>}},
     reasons : AdvReasons]

NoDict == [risk_score |-> -1, risk_band |-> <<>>, reasons |-> <<>>]

ReconInit ==
    /\ profile \in Profiles
    /\ advisory = NoAdvisory
    /\ baseline = NoDict
    /\ result = NoDict
    /\ rpc = "start"

ReconIdle ==
    /\ profile = [fatf_key |-> "none", matches |-> <<>>,
                  local_blacklist_flag |-> FALSE, is_pep |-> FALSE]
    /\ advisory = NoAdvisory
    /\ baseline = NoDict
    /\ result = NoDict
    /\ rpc = "idle"

Call(use_llm, adv) ==
    /\ rpc = "start"
    /\ LET o == llm_score_sanctions(profile, use_llm, adv)
       IN  /\ result' = o.ret
           /\ baseline' = o.base
    /\ advisory' = adv
    /\ rpc' = "returned"
    /\ UNCHANGED <<profile, notRecon>>

\* use_llm = False
ScoreBaselineOnly == Call(FALSE, NoAdvisory)

\* use_llm = True and generate_answer raises (timeout, HTTP error)
ScoreLlmRaises == Call(TRUE, [NoAdvisory EXCEPT !.kind = "raise"])

\* use_llm = True and the answer holds no JSON object
ScoreLlmUnparsable == Call(TRUE, [NoAdvisory EXCEPT !.kind = "unparsable"])

\* use_llm = True and the answer holds a JSON object
ScoreLlmParsed == \E adv \in Parsed : Call(TRUE, adv)

ReconNext == ScoreBaselineOnly \/ ScoreLlmRaises \/ ScoreLlmUnparsable \/ ScoreLlmParsed

(***************************************************************************)
(* pure_risk_scorer.py                                                     *)
(***************************************************************************)
\* substring test: sub in s
Contains(s, sub) ==
    \E i \in 0..(Len(s) - Len(sub)) : SubSeq(s, i + 1, i + Len(sub)) = sub

\* PureRiskScorer.BLACK_LIST_COUNTRIES
BLACK_LIST_COUNTRIES ==
    { <<"I","R","A","N">>
    , <<"I","R","N">>
    , <<"I","S","L","A","M","I","C"," ","R","E","P","U","B","L","I","C"," ","O","F"," ","I","R","A","N">>
    , <<"I","R">>
    , <<"N","O","R","T","H"," ","K","O","R","E","A">>
    , <<"D","E","M","O","C","R","A","T","I","C"," ","P","E","O","P","L","E","'","S"," ","R","E","P","U","B","L","I","C"," ","O","F"," ","K","O","R","E","A">>
    , <<"D","P","R","K">>
    , <<"K","O","R","E","A"," ","N","O","R","T","H">>
    , <<"P","R","K">>
    , <<"K","P">>
    , <<"M","Y","A","N","M","A","R">>
    , <<"B","U","R","M","A">>
    , <<"M","M","R">>
    , <<"M","M">>
    }

\* PureRiskScorer.GREY_LIST_COUNTRIES
GREY_LIST_COUNTRIES ==
    { <<"A","L","G","E","R","I","A">>
    , <<"D","Z","A">>
    , <<"A","N","G","O","L","A">>
    , <<"A","G","O">>
    , <<"B","O","L","I","V","I","A">>
    , <<"B","O","L">>
    , <<"B","U","L","G","A","R","I","A">>
    , <<"B","G","R">>
    , <<"B","U","R","K","I","N","A"," ","F","A","S","O">>
    , <<"B","F","A">>
    , <<"C","A","M","E","R","O","O","N">>
    , <<"C","M","R">>
    , <<"C","R","O","A","T","I","A">>
    , <<"H","R","V">>
    , <<"C","R","O">>
    , <<"D","E","M","O","C","R","A","T","I","C"," ","R","E","P","U","B","L","I","C"," ","O","F"," ","C","O","N","G","O">>
    , <<"D","R","C">>
    , <<"C","O","D">>
    , <<"H","A","I","T","I">>
    , <<"H","T","I">>
    , <<"J","A","M","A","I","C","A">>
    , <<"J","A","M">>
    , <<"K","E","N","Y","A">>
    , <<"K","E","N">>
    , <<"M","A","L","I">>
    , <<"M","L","I">>
    , <<"M","O","Z","A","M","B","I","Q","U","E">>
    , <<"M","O","Z">>
    , <<"N","A","M","I","B","I","A">>
    , <<"N","A","M">>
    , <<"N","I","G","E","R","I","A">>
    , <<"N","G","A">>
    , <<"P","H","I","L","I","P","P","I","N","E","S">>
    , <<"P","H","L">>
    , <<"P","H">>
    , <<"S","E","N","E","G","A","L">>
    , <<"S","E","N">>
    , <<"S","O","U","T","H"," ","A","F","R","I","C","A">>
    , <<"Z","A","F">>
    , <<"Z","A">>
    , <<"S","O","U","T","H"," ","S","U","D","A","N">>
    , <<"S","S","D">>
    , <<"S","S">>
    , <<"S","Y","R","I","A">>
    , <<"S","Y","R">>
    , <<"S","Y">>
    , <<"S","Y","R","I","A","N"," ","A","R","A","B"," ","R","E","P","U","B","L","I","C">>
    , <<"T","U","R","K","E","Y">>
    , <<"T","U","R">>
    , <<"T","R">>
    , <<"T","U+00DC","R","K","I","Y","E">>
    , <<"T","U","R","K","I","Y","E">>
    , <<"U","G","A","N","D","A">>
    , <<"U","G","A">>
    , <<"U","N","I","T","E","D"," ","A","R","A","B"," ","E","M","I","R","A","T","E","S">>
    , <<"U","A","E">>
    , <<"A","R","E">>
    , <<"V","E","N","E","Z","U","E","L","A">>
    , <<"V","E","N">>
    , <<"V","I","E","T","N","A","M">>
    , <<"V","N","M">>
    , <<"V","N">>
    , <<"Y","E","M","E","N">>
    , <<"Y","E","M">>
    , <<"Z","I","M","B","A","B","W","E">>
    , <<"Z","W","E">>
    , <<"C","U+00D4","T","E"," ","D","'","I","V","O","I","R","E">>
    , <<"C","O","T","E"," ","D","'","I","V","O","I","R","E">>
    , <<"C","O","T","E"," ","D","I","V","O","I","R","E">>
    , <<"I","V","O","R","Y"," ","C","O","A","S","T">>
    , <<"C","I","V">>
    }

\* PureRiskScorer.CASH_INTENSIVE_OCCUPATIONS
CASH_INTENSIVE_OCCUPATIONS ==
    { <<"C","U","R","R","E","N","C","Y","_","E","X","C","H","A","N","G","E">>
    , <<"C","U","R","R","E","N","C","Y"," ","E","X","C","H","A","N","G","E">>
    , <<"M","O","N","E","Y"," ","E","X","C","H","A","N","G","E">>
    , <<"C","A","S","I","N","O">>
    , <<"G","A","M","B","L","I","N","G">>
    , <<"G","A","M","I","N","G">>
    , <<"M","O","N","E","Y","_","T","R","A","N","S","F","E","R">>
    , <<"M","O","N","E","Y"," ","T","R","A","N","S","F","E","R">>
    , <<"R","E","M","I","T","T","A","N","C","E">>
    , <<"P","A","W","N","_","S","H","O","P">>
    , <<"P","A","W","N"," ","S","H","O","P">>
    , <<"P","A","W","N","B","R","O","K","E","R">>
    , <<"J","E","W","E","L","R","Y">>
    , <<"J","E","W","E","L","L","E","R">>
    , <<"J","E","W","E","L","E","R">>
    , <<"C","A","R"," ","D","E","A","L","E","R">>
    , <<"A","U","T","O"," ","D","E","A","L","E","R">>
    , <<"V","E","H","I","C","L","E"," ","S","A","L","E","S">>
    }

\* PureRiskScorer._normalize without the strip() call
PureRiskScorer_normalize_nostrip(text) ==
    IF text = <<>> THEN <<>> ELSE Upper(text)

\* PureRiskScorer._normalize
PureRiskScorer_normalize(text) ==
    IF text = <<>> THEN <<>> ELSE Strip(Upper(text))

\* PureRiskScorer._derive_country: first candidate that is non-empty after strip()
PureRiskScorer_derive_country(row) ==
    LET candidates == <<row.CitizenshipDesc, row.Citizenship, row.Nationality, row.BirthCountry>>
        ok == {i \in 1..4 : candidates[i] # <<>> /\ Strip(candidates[i]) # <<>>}
    IN  IF ok = {} THEN <<>>
        ELSE PureRiskScorer_normalize(candidates[CHOOSE i \in ok : \A j \in ok : i <= j])

\* PureRiskScorer._check_fatf_country looking the raw string up in the tables
PureRiskScorer_check_fatf_country_raw(country) ==
    IF country = <<>> THEN <<0, "">>
    ELSE IF country \in BLACK_LIST_COUNTRIES
         THEN <<80, "Country is on FATF black list (high-risk jurisdiction)">>
    ELSE IF country \in GREY_LIST_COUNTRIES
         THEN <<50, "Country is on FATF grey list (increased monitoring)">>
    ELSE <<0, "">>

\* PureRiskScorer._check_fatf_country -> <<score, reason>>
PureRiskScorer_check_fatf_country(country) ==
    LET normalized == PureRiskScorer_normalize(country)
    IN  IF normalized = <<>> THEN <<0, "">>
        ELSE IF normalized \in BLACK_LIST_COUNTRIES
             THEN <<80, "Country is on FATF black list (high-risk jurisdiction)">>
        ELSE IF normalized \in GREY_LIST_COUNTRIES
             THEN <<50, "Country is on FATF grey list (increased monitoring)">>
        ELSE <<0, "">>

\* PureRiskScorer._check_pep_status
PureRiskScorer_check_pep_status(row) ==
    IF PureRiskScorer_normalize(row.RiskFlag) = <<"P","E","P">>
    THEN <<30, "Customer is a Politically Exposed Person (PEP)">> ELSE <<0, "">>

ReasonLocalBlacklist == "Customer is on local blacklist"

\* mutant: only the exact text Y counts, without upper() / strip() and without YES
PureRiskScorer_check_local_blacklist_exact(row) ==
    IF row.LocalBlackListFlag = <<"Y">>
    THEN <<100, ReasonLocalBlacklist>> ELSE <<0, "">>

\* PureRiskScorer._check_local_blacklist
PureRiskScorer_check_local_blacklist(row) ==
    LET blacklist_flag == PureRiskScorer_normalize(row.LocalBlackListFlag)
    IN  IF blacklist_flag = <<"Y">> \/ blacklist_flag = <<"Y","E","S">>
        THEN <<100, ReasonLocalBlacklist>> ELSE <<0, "">>

\* PureRiskScorer._check_cash_intensive_occupation
PureRiskScorer_check_cash_intensive_occupation(row) ==
    LET occupation == PureRiskScorer_normalize(row.MainAccount)
    IN  IF occupation = <<>> THEN <<0, "">>
        ELSE IF occupation \in CASH_INTENSIVE_OCCUPATIONS THEN <<15, "Cash-intensive occupation">>
        ELSE <<0, "">>

\* PureRiskScorer._check_document_expiry: row.ExpiryDate is the parsed date compared with
\* datetime.now(): "expired", "soon" (within 90 days), or "none" (absent, unparsable, later)
PureRiskScorer_check_document_expiry(row) ==
    CASE row.ExpiryDate = "expired" -> <<20, "Identity document expired">>
      [] row.ExpiryDate = "soon"    -> <<10, "Identity document expires soon">>
      [] OTHER                      -> <<0, "">>

\* PureRiskScorer._check_resident_status
PureRiskScorer_check_resident_status(row) ==
    IF PureRiskScorer_normalize(row.ResidentStatus)
           \in {<<"N","O","N","R","E","S","I","D","E","N","T">>, <<"N","O","N","-","R","E","S","I","D","E","N","T">>, <<"N","O","N"," ","R","E","S","I","D","E","N","T">>, <<"N">>}
    THEN <<15, "Customer is non-resident">> ELSE <<0, "">>

\* f"Birth country: {reason}"
BirthReason(reason) ==
    IF reason = "Country is on FATF black list (high-risk jurisdiction)"
    THEN "Birth country: Country is on FATF black list (high-risk jurisdiction)"
    ELSE "Birth country: Country is on FATF grey list (increased monitoring)"

ReasonNoFactors == "No high-risk factors detected"

\* RED / YELLOW / GREEN flag of PureRiskScorer.assess_risk
PureRiskFlag(total_score) ==
    IF total_score >= 80 THEN RED ELSE IF total_score >= 40 THEN YELLOW ELSE GREEN

\* if score > 0: total_score += score; reasons.append(reason), as the pair added
Counted(check) == IF check[1] > 0 THEN <<check[1], <<check[2]>> >> ELSE <<0, <<>> >>

\* PureRiskScorer.assess_risk; risk_reason is kept as the list that "; ".join() receives
PureRiskScorer_assess_risk(row) ==
    LET lb == PureRiskScorer_check_local_blacklist(row)
    IN  IF lb[1] > 0
        THEN [risk_score |-> 100, risk_flag |-> RED, risk_reason |-> <<lb[2]>>]
        ELSE
        LET main_country == PureRiskScorer_derive_country(row)
            \* 2. FATF country risk
            f  == Counted(PureRiskScorer_check_fatf_country(main_country))
            \* 3. birth country risk
            birth_country == PureRiskScorer_normalize(row.BirthCountry)
            birth_country_different == birth_country # <<>> /\ birth_country # main_country
            bf == PureRiskScorer_check_fatf_country(birth_country)
            b  == IF birth_country_different
                  THEN IF bf[1] > 0
                       THEN <<bf[1] \div 2, <<BirthReason(bf[2])>> >>
                       ELSE <<5, <<"Birth country differs from citizenship">> >>
                  ELSE <<0, <<>> >>
            \* 4. - 7. PEP status, occupation, document expiry, resident status
            pep  == Counted(PureRiskScorer_check_pep_status(row))
            cash == Counted(PureRiskScorer_check_cash_intensive_occupation(row))
            ex   == Counted(PureRiskScorer_check_document_expiry(row))
            rs   == Counted(PureRiskScorer_check_resident_status(row))
            reasons == f[2] \o b[2] \o pep[2] \o cash[2] \o ex[2] \o rs[2]
            total_score == Max(0, Min(100, f[1] + b[1] + pep[1] + cash[1] + ex[1] + rs[1]))
        IN  [risk_score  |-> total_score,
             risk_flag   |-> PureRiskFlag(total_score),
             risk_reason |-> IF reasons = <<>> THEN <<ReasonNoFactors>> ELSE reasons]

(***************************************************************************)
(* bulk_risk_engine.py                                                     *)
(***************************************************************************)
\* BulkRiskEngine.HIGH_RISK_OCCUPATIONS in dict (insertion) order
HIGH_RISK_OCCUPATIONS ==
    << [key |-> <<"f","r","o","n","t","_","c","o","m","p","a","n","y","_","t","r","a","d","e","r">>, score |-> 40]
    ,  [key |-> <<"i","n","t","e","r","n","a","t","i","o","n","a","l","_","m","o","n","e","y","_","s","e","r","v","i","c","e","_","b","u","s","i","n","e","s","s">>, score |-> 40]
    ,  [key |-> <<"c","a","s","h","_","i","n","t","e","n","s","i","v","e","_","b","u","s","i","n","e","s","s">>, score |-> 30]
    ,  [key |-> <<"c","a","s","i","n","o">>, score |-> 35]
    ,  [key |-> <<"c","r","y","p","t","o","c","u","r","r","e","n","c","y">>, score |-> 30]
    ,  [key |-> <<"m","o","n","e","y","_","e","x","c","h","a","n","g","e">>, score |-> 35]
    ,  [key |-> <<"r","e","a","l","_","e","s","t","a","t","e">>, score |-> 20]
    ,  [key |-> <<"p","r","e","c","i","o","u","s","_","m","e","t","a","l","s">>, score |-> 25]
    ,  [key |-> <<"a","r","t","_","d","e","a","l","e","r">>, score |-> 20]
    >>

\* BulkRiskEngine.HIGH_RISK_EMAIL_DOMAINS
HIGH_RISK_EMAIL_DOMAINS ==
    << <<".","r","u">>
    ,  <<".","i","r">>
    ,  <<".","k","p">>
    ,  <<".","s","y">>
    ,  <<"t","e","m","p","m","a","i","l">>
    ,  <<"g","u","e","r","r","i","l","l","a","m","a","i","l">>
    ,  <<"1","0","m","i","n","u","t","e","m","a","i","l">>
    ,  <<"t","h","r","o","w","a","w","a","y">>
    >>

\* str.replace("_", " ")
ReplaceUnderscore(s) == [i \in 1..Len(s) |-> IF s[i] = "_" THEN " " ELSE s[i]]

\* BulkRiskEngine.__init__: the device-usage index of a new engine (deviceId -> list)
BulkRiskEngine_init == << >>

\* BulkRiskEngine._score_country_fatf
_score_country_fatf(row) ==
    PureRiskScorer_check_fatf_country(PureRiskScorer_derive_country(row))

\* BulkRiskEngine._score_birth_country
_score_birth_country(row) ==
    LET f == PureRiskScorer_check_fatf_country(row.BirthCountry)
    IN  IF f[1] = 0 THEN <<0, "">> ELSE <<f[1] \div 2, BirthReason(f[2])>>

\* BulkRiskEngine._score_pep
_score_pep(row) == PureRiskScorer_check_pep_status(row)

\* index of the first table entry whose key occurs in text, the key written with
\* spaces for underscores when spaced; 0 when none
FirstCategory(text, spaced) ==
    LET hits == {i \in 1..Len(HIGH_RISK_OCCUPATIONS) :
                     Contains(text, IF spaced
                                    THEN ReplaceUnderscore(HIGH_RISK_OCCUPATIONS[i].key)
                                    ELSE HIGH_RISK_OCCUPATIONS[i].key)}
    IN  IF hits = {} THEN 0 ELSE CHOOSE i \in hits : \A j \in hits : i <= j

\* BulkRiskEngine._score_occupation
_score_occupation(risk_input) ==
    LET main_account == Strip(Lower(risk_input.mainAccount))
        occupation   == Strip(Lower(risk_input.occupation))
        m  == FirstCategory(main_account, FALSE)
        s1 == IF m = 0 THEN 0 ELSE Max(0, HIGH_RISK_OCCUPATIONS[m].score)
        r1 == IF m = 0 THEN <<>> ELSE <<"High-risk business category">>
        o  == IF occupation = <<>> THEN 0 ELSE FirstCategory(occupation, TRUE)
        s2 == IF o = 0 THEN s1 ELSE Max(s1, HIGH_RISK_OCCUPATIONS[o].score)
        r2 == IF o = 0 THEN r1 ELSE Append(r1, "High-risk occupation")
        c  == PureRiskScorer_check_cash_intensive_occupation(risk_input.rawRow)
        s3 == IF s2 = 0 /\ c[1] > 0 THEN c[1] ELSE s2
        r3 == IF s2 = 0 /\ c[1] > 0 THEN Append(r2, c[2]) ELSE r2
    IN  <<s3, r3>>

\* BulkRiskEngine._score_vpn_and_ip
_score_vpn_and_ip(risk_input) ==
    LET citizenship == Upper(risk_input.citizenship)
        resident_status == risk_input.residentStatus
        s1 == IF risk_input.isVPN THEN 10 ELSE 0
        r1 == IF risk_input.isVPN THEN <<"VPN usage detected">> ELSE <<>>
        ip_country == Upper(risk_input.ipCountry)
        mismatch == ip_country # <<>> /\ citizenship # <<>> /\ ip_country # citizenship
        nonres == Contains(Upper(resident_status), <<"N","O","N">>)
        s2 == IF mismatch THEN (IF nonres THEN s1 + 5 ELSE s1 + 15) ELSE s1
        r2 == IF mismatch
              THEN Append(r1, IF nonres THEN "IP country differs - expected for non-resident"
                                         ELSE "IP country mismatch with citizenship")
              ELSE r1
        black == ip_country \in BLACK_LIST_COUNTRIES
        s3 == IF black THEN s2 + 20 ELSE s2
        r3 == IF black THEN Append(r2, "IP from FATF high-risk jurisdiction") ELSE r2
    IN  <<s3, r3>>

\* mutant: the customer is appended without the membership test
RegisterCustomerNoCheck(usage, device_id, customer_no) ==
    LET created == IF device_id \notin DOMAIN usage
                   THEN (device_id :> <<>>) @@ usage
                   ELSE usage
    IN  [created EXCEPT ![device_id] = Append(@, customer_no)]

\* the list registered for device_id after the two membership tests of _score_device_reuse
RegisterCustomer(usage, device_id, customer_no) ==
    LET created == IF device_id \notin DOMAIN usage
                   THEN (device_id :> <<>>) @@ usage
                   ELSE usage
    IN  IF customer_no \notin Range(created[device_id])
        THEN [created EXCEPT ![device_id] = Append(@, customer_no)]
        ELSE created

\* mutant: the thresholds are compared with > in place of >=
ReuseScoreStrict(reuse_count) ==
    IF reuse_count > 5 THEN <<20, <<"Device reused">> >>
    ELSE IF reuse_count > 3 THEN <<10, <<"Device reused">> >>
    ELSE <<0, <<>> >>

\* score for a reuse count
ReuseScore(reuse_count) ==
    IF reuse_count >= 5 THEN <<20, <<"Device reused">> >>
    ELSE IF reuse_count >= 3 THEN <<10, <<"Device reused">> >>
    ELSE <<0, <<>> >>

\* BulkRiskEngine._score_device_reuse -> [score, reasons, usage, count]
\* count is reuse_count, or -1 when the function returned before registering
_score_device_reuse(risk_input, usage) ==
    LET device_id   == risk_input.deviceId
        customer_no == risk_input.customerNo
    IN  IF device_id = "" \/ customer_no = ""
        THEN [score |-> 0, reasons |-> <<>>, usage |-> usage, count |-> -1]
        ELSE LET usage2 == RegisterCustomer(usage, device_id, customer_no)
                 reuse_count == Len(usage2[device_id])
             IN  [score |-> ReuseScore(reuse_count)[1], reasons |-> ReuseScore(reuse_count)[2],
                  usage |-> usage2, count |-> reuse_count]

\* email.split("@")[-1]
AfterLastAt(email) ==
    LET ats == {i \in 1..Len(email) : email[i] = "@"}
    IN  IF ats = {} THEN email
        ELSE SubSeq(email, (CHOOSE i \in ats : \A j \in ats : i >= j) + 1, Len(email))

\* BulkRiskEngine._score_email_risk
_score_email_risk(risk_input) ==
    LET email == Lower(risk_input.email)
    IN  IF email = <<>> \/ ~Contains(email, <<"@">>) THEN <<0, <<>> >>
        ELSE IF \E i \in 1..Len(HIGH_RISK_EMAIL_DOMAINS) :
                    Contains(AfterLastAt(email), HIGH_RISK_EMAIL_DOMAINS[i])
             THEN <<10, <<"High-risk email domain">> >>
             ELSE <<0, <<>> >>

\* mutant: the total is not clamped
ClampTotalOff(total) == total

\* total = max(0, min(100, total))
ClampTotal(total) == Max(0, Min(100, total))

\* the 4-band mapping of assess
RiskLevel(total) ==
    IF total >= 75 THEN "CRITICAL"
    ELSE IF total >= 50 THEN "HIGH"
    ELSE IF total >= 25 THEN "MEDIUM"
    ELSE "LOW"

\* if r: reasons.append(r), for a factor that returns one reason text.  A driver is
\* kept as the list of texts that make it up (one text, or the texts "; ".join() glued)
AddReason(reasons, r) == IF r = "" THEN reasons ELSE Append(reasons, <<r>>)

\* if r: reasons.append(r), for a factor that returns "; ".join(rs)
Joined(rs) == IF rs = <<>> THEN <<>> ELSE <<rs>>

\* mutant: the device factor registers the customer before the blacklist test returns
assess_registers_first(risk_input, usage) ==
    LET row == risk_input.rawRow
        lb  == PureRiskScorer_check_local_blacklist(row)
    IN  IF lb[1] > 0
        THEN [out |-> [score |-> 100, riskLevel |-> "CRITICAL",
                       breakdown |-> [sanctions |-> 100, pep |-> 0, digitalFootprint |-> 0,
                                      device |-> 0, profile |-> 0],
                       drivers |-> << <<lb[2]>> >>],
              usage |-> _score_device_reuse(risk_input, usage).usage, count |-> -1]
        ELSE
        LET fatf  == _score_country_fatf(row)
            birth == _score_birth_country(row)
            pep   == _score_pep(row)
            occ   == _score_occupation(risk_input)
            vpn   == _score_vpn_and_ip(risk_input)
            dev   == _score_device_reuse(risk_input, usage)
            mail  == _score_email_risk(risk_input)
            sanctions_score == fatf[1] + birth[1]
            pep_score       == pep[1]
            profile_score   == occ[1]
            digital_score   == vpn[1] + mail[1]
            device_score    == dev.score
            reasons == AddReason(AddReason(AddReason(<<>>, fatf[2]), birth[2]), pep[2])
                       \o Joined(occ[2]) \o Joined(vpn[2]) \o Joined(dev.reasons)
                       \o Joined(mail[2])
            total == ClampTotal(sanctions_score + pep_score + profile_score
                                + digital_score + device_score)
        IN  [out |-> [score |-> total, riskLevel |-> RiskLevel(total),
                      breakdown |-> [sanctions |-> sanctions_score, pep |-> pep_score,
                                     digitalFootprint |-> digital_score,
                                     device |-> device_score, profile |-> profile_score],
                      drivers |-> IF reasons = <<>> THEN << <<ReasonNoFactors>> >> ELSE reasons],
              usage |-> dev.usage, count |-> dev.count]

\* BulkRiskEngine.assess -> [out: returned dict, usage: device-usage index afterwards,
\* count: reuse count the device factor scored with, -1 when nothing was registered]
assess(risk_input, usage) ==
    LET row == risk_input.rawRow
        lb  == PureRiskScorer_check_local_blacklist(row)
    IN  IF lb[1] > 0
        THEN [out |-> [score |-> 100, riskLevel |-> "CRITICAL",
                       breakdown |-> [sanctions |-> 100, pep |-> 0, digitalFootprint |-> 0,
                                      device |-> 0, profile |-> 0],
                       drivers |-> << <<lb[2]>> >>],
              usage |-> usage, count |-> -1]
        ELSE
        LET fatf  == _score_country_fatf(row)
            birth == _score_birth_country(row)
            pep   == _score_pep(row)
            occ   == _score_occupation(risk_input)
            vpn   == _score_vpn_and_ip(risk_input)
            dev   == _score_device_reuse(risk_input, usage)
            mail  == _score_email_risk(risk_input)
            sanctions_score == fatf[1] + birth[1]
            pep_score       == pep[1]
            profile_score   == occ[1]
            digital_score   == vpn[1] + mail[1]
            device_score    == dev.score
            reasons == AddReason(AddReason(AddReason(<<>>, fatf[2]), birth[2]), pep[2])
                       \o Joined(occ[2]) \o Joined(vpn[2]) \o Joined(dev.reasons)
                       \o Joined(mail[2])
            total == ClampTotal(sanctions_score + pep_score + profile_score
                                + digital_score + device_score)
        IN  [out |-> [score |-> total, riskLevel |-> RiskLevel(total),
                      breakdown |-> [sanctions |-> sanctions_score, pep |-> pep_score,
                                     digitalFootprint |-> digital_score,
                                     device |-> device_score, profile |-> profile_score],
                      drivers |-> IF reasons = <<>> THEN << <<ReasonNoFactors>> >> ELSE reasons],
              usage |-> dev.usage, count |-> dev.count]

\* mutant: the index is left as it is
reset_device_tracking_noop(usage) == usage

\* BulkRiskEngine.reset_device_tracking: dict.clear()
reset_device_tracking(usage) == << >>

\* ---- bounded inputs of the scorers ----
\* (CitizenshipDesc, Citizenship, Nationality, BirthCountry)
CountryRows ==
    { << <<>>, <<>>, <<>>, <<>> >>
    , << <<"I","s","l","a","m","i","c"," ","R","e","p","u","b","l","i","c"," ","o","f"," ","I","r","a","n">>, <<"I","R">>, <<>>, <<"I","r","a","n">> >>
    , << <<>>, <<" ">>, <<"P","h","i","l","i","p","p","i","n","e","s">>, <<>> >>
    , << <<>>, <<"U","Z">>, <<>>, <<"M","M">> >>
    , << <<>>, <<"U","Z">>, <<>>, <<"U","Z">> >>
    , << <<>>, <<>>, <<>>, <<" ","t","u","r","k","e","y"," ">> >>
    }

\* LocalBlackListFlag cells: N, Y, " yes "
FlagCells == {<<"N">>, <<"Y">>, <<" ","y","e","s"," ">>}

\* the cells that mean the customer is on the local blacklist
FlagCellsSet == {<<"Y">>, <<" ","y","e","s"," ">>}

\* (rawRow.MainAccount, business.mainAccount, business.occupation)
OccupationRows ==
    { << <<>>, <<>>, <<>> >>
    , << <<"C","a","s","i","n","o">>, <<"c","a","s","i","n","o">>, <<>> >>
    , << <<"c","a","s","h","_","i","n","t","e","n","s","i","v","e","_","b","u","s","i","n","e","s","s"," ","c","a","s","i","n","o">>, <<"c","a","s","h","_","i","n","t","e","n","s","i","v","e","_","b","u","s","i","n","e","s","s"," ","c","a","s","i","n","o">>, <<>> >>
    , << <<"J","e","w","e","l","e","r">>, <<"j","e","w","e","l","e","r">>, <<>> >>
    , << <<>>, <<>>, <<"R","e","a","l"," ","E","s","t","a","t","e"," ","a","g","e","n","t">> >>
    }

\* (isVPN, ipCountry, citizenship, residentStatus)
DigitalRows ==
    { <<FALSE, <<>>, <<>>, <<>> >>
    , <<TRUE, <<"k","p">>, <<"U","Z">>, <<>> >>
    , <<FALSE, <<"U","S">>, <<"U","Z">>, <<"N","o","n","-","R","e","s","i","d","e","n","t">> >>
    , <<TRUE, <<"I","R">>, <<"I","R">>, <<"R","e","s","i","d","e","n","t">> >>
    }

\* (device-usage index before the call, deviceId, customerNo)
DeviceRows ==
    { <<BulkRiskEngine_init, "d1", "c1">>
    , <<("d1" :> <<"c1", "c2">>), "d1", "c3">>
    , <<("d1" :> <<"c1", "c2", "c4", "c5">>), "d1", "c3">>
    , <<("d1" :> <<"c1", "c2">>), "", "c3">>
    , <<("d1" :> <<"c1", "c2", "c3">>), "d1", "c3">>
    }

RiskInput(c, flag, rf, o, d, email, expiry, dev, cust) ==
    [rawRow |-> [LocalBlackListFlag |-> flag, CitizenshipDesc |-> c[1], Citizenship |-> c[2],
                 Nationality |-> c[3], BirthCountry |-> c[4], RiskFlag |-> rf,
                 MainAccount |-> o[1], ExpiryDate |-> expiry, ResidentStatus |-> d[4]],
     customerNo |-> cust, citizenship |-> d[3], mainAccount |-> o[2], occupation |-> o[3],
     isVPN |-> d[1], ipCountry |-> d[2], deviceId |-> dev, email |-> email,
     residentStatus |-> d[4]]

NoResult == [score |-> -1, riskLevel |-> "", breakdown |-> [sanctions |-> 0, pep |-> 0,
             digitalFootprint |-> 0, device |-> 0, profile |-> 0], drivers |-> <<>>]

\* a record that holds a blacklist flag, a device and a customer, and nothing else
BatchRecord(flag, dev, cust) ==
    RiskInput(<< <<>>, <<>>, <<>>, <<>> >>, flag, <<>>, << <<>>, <<>>, <<>> >>,
              <<FALSE, <<>>, <<>>, <<>> >>, <<>>, "none", dev, cust)

NoPureResult == [risk_score |-> -1, risk_flag |-> <<>>, risk_reason |-> <<>>]

EngineIdle ==
    /\ ri = BatchRecord(<<"N">>, "", "")
    /\ device_usage = BulkRiskEngine_init
    /\ engine_result = NoResult
    /\ pure_result = NoPureResult
    /\ epc = "idle"
    /\ registered = {}
    /\ lastCount = -1
    /\ lastOp = "new"
    /\ lastRepeat = FALSE
    /\ prevMax = 0

\* one record in front of an engine whose index earlier records of the batch filled
ScoreInit ==
    /\ \E c \in CountryRows, flag \in FlagCells, rf \in {<<>>, <<"p","e","p">>}, o \in OccupationRows,
          d \in DigitalRows, email \in {<<>>, <<"a","@","x",".","r","u">>}, expiry \in {"none", "expired"}, dv \in DeviceRows :
          /\ ri = RiskInput(c, flag, rf, o, d, email, expiry, dv[2], dv[3])
          /\ device_usage = dv[1]
          /\ registered = UNION {{<<k, x>> : x \in Range(dv[1][k])} : k \in DOMAIN dv[1]}
    /\ engine_result = NoResult
    /\ pure_result = NoPureResult
    /\ epc = "input"
    /\ lastCount = -1
    /\ lastOp = "new"
    /\ lastRepeat = FALSE
    /\ prevMax = 0

\* the pairs a call of assess hands to the tracker: none for a blacklisted record or
\* an empty deviceId / customerNo
Registers(risk_input) ==
    IF /\ PureRiskScorer_check_local_blacklist(risk_input.rawRow)[1] = 0
       /\ risk_input.deviceId # ""
       /\ risk_input.customerNo # ""
    THEN {<<risk_input.deviceId, risk_input.customerNo>>}
    ELSE {}

\* risk_engine.assess(ri) on the record in front of the engine
AssessOne ==
    /\ epc = "input"
    /\ LET o == assess(ri, device_usage)
       IN  /\ engine_result' = o.out
           /\ device_usage' = o.usage
           /\ lastCount' = o.count
    /\ registered' = registered \cup Registers(ri)
    /\ lastRepeat' = (Registers(ri) # {} /\ Registers(ri) \subseteq registered)
    /\ lastOp' = "assess"
    /\ epc' = "assessed"
    /\ UNCHANGED <<ri, pure_result, prevMax, notEngine>>

\* PureRiskScorer().assess_risk(row) on the same row
ScoreOne ==
    /\ epc = "assessed"
    /\ pure_result' = PureRiskScorer_assess_risk(ri.rawRow)
    /\ epc' = "scored"
    /\ UNCHANGED <<ri, device_usage, engine_result, registered, lastCount, lastOp,
                   lastRepeat, prevMax, notEngine>>

ScoreNext == AssessOne \/ ScoreOne

\* ---- a batch run: a new engine, then risk_engine.assess record after record ----
DeviceIds == {"", "d1", "d2"}

CustomerNos == {"", "c1", "c2", "c3"}

\* the records of a run: every device and customer, and one blacklisted customer
BatchRecords ==
    {BatchRecord(<<"N">>, dev, cust) : dev \in DeviceIds, cust \in CustomerNos}
        \cup {BatchRecord(<<"Y">>, "d1", "c1")}

\* the longest list of the index
LongestList(usage) ==
    IF DOMAIN usage = {} THEN 0
    ELSE LET k == CHOOSE x \in DOMAIN usage : \A y \in DOMAIN usage : Len(usage[x]) >= Len(usage[y])
         IN  Len(usage[k])

BatchInit ==
    /\ ri = BatchRecord(<<"N">>, "", "")
    /\ device_usage = BulkRiskEngine_init
    /\ engine_result = NoResult
    /\ pure_result = NoPureResult
    /\ epc = "batch"
    /\ registered = {}
    /\ lastCount = -1
    /\ lastOp = "new"
    /\ lastRepeat = FALSE
    /\ prevMax = 0

\* process_bulk_excel line 25: risk_engine = BulkRiskEngine(), for the next batch run
NewBatchRun ==
    /\ epc = "batch"
    /\ device_usage' = BulkRiskEngine_init
    /\ registered' = {}
    /\ lastCount' = -1
    /\ lastOp' = "new"
    /\ lastRepeat' = FALSE
    /\ prevMax' = LongestList(device_usage)
    /\ UNCHANGED <<ri, engine_result, pure_result, epc, notEngine>>

\* process_bulk_excel line 33: engine_result = risk_engine.assess(ri), then the next ri
AssessRecord ==
    /\ epc = "batch"
    /\ \E rec \in BatchRecords :
          /\ ri' = rec
          /\ LET o == assess(rec, device_usage)
             IN  /\ engine_result' = o.out
                 /\ device_usage' = o.usage
                 /\ lastCount' = o.count
          /\ registered' = registered \cup Registers(rec)
          /\ lastRepeat' = (Registers(rec) # {} /\ Registers(rec) \subseteq registered)
    /\ lastOp' = "assess"
    /\ UNCHANGED <<pure_result, epc, prevMax, notEngine>>

\* risk_engine.reset_device_tracking()
ResetDeviceTracking ==
    /\ epc = "batch"
    /\ device_usage' = reset_device_tracking(device_usage)
    /\ registered' = {}
    /\ lastCount' = -1
    /\ lastOp' = "reset"
    /\ lastRepeat' = FALSE
    /\ prevMax' = LongestList(device_usage)
    /\ UNCHANGED <<ri, engine_result, pure_result, epc, notEngine>>

(***************************************************************************)
(* sanction_matching.py                                                    *)
(***************************************************************************)
\* sanctions_loader._normalize: " ".join(text.upper().split())
sanctions_loader_normalize(text) == JoinSplit(Upper(text))

\* the mapping of _soundex: letter groups and their digit
SoundexMapping ==
    << [group |-> {"b","f","p","v"}, code |-> "1"]
     , [group |-> {"c","g","j","k","q","s","x","z"}, code |-> "2"]
     , [group |-> {"d","t"}, code |-> "3"]
     , [group |-> {"l"}, code |-> "4"]
     , [group |-> {"m","n"}, code |-> "5"]
     , [group |-> {"r"}, code |-> "6"]
     >>

\* code_for_char of _soundex: "" when no group holds c
code_for_char(c) ==
    LET hits == {i \in 1..Len(SoundexMapping) : c \in SoundexMapping[i].group}
    IN  IF hits = {} THEN "" ELSE SoundexMapping[CHOOSE i \in hits : \A j \in hits : i <= j].code

\* the digits loop of _soundex over name[1:]
RECURSIVE SoundexDigits(_, _)
SoundexDigits(rest, digits) ==
    IF rest = <<>> THEN digits
    ELSE LET dgt == code_for_char(Head(rest))
         IN  IF dgt = "" THEN SoundexDigits(Tail(rest), digits)
             ELSE IF digits = <<>> \/ digits[Len(digits)] # dgt
                  THEN SoundexDigits(Tail(rest), Append(digits, dgt))
                  ELSE SoundexDigits(Tail(rest), digits)

\* _soundex
_soundex(name) ==
    LET nm == sanctions_loader_normalize(name)
    IN  IF nm = <<>> THEN <<>>
        ELSE LET first_letter == UpperChar(nm[1])
                 digits == SoundexDigits(Tail(nm), <<>>)
                 code == <<first_letter>> \o SubSeq(digits, 1, Min(3, Len(digits)))
             IN  code \o [i \in 1..(4 - Len(code)) |-> "0"]

\* _phonetic_equal
_phonetic_equal(a, b) == _soundex(a) = _soundex(b) /\ _soundex(a) # <<>>

\* length of a longest common subsequence
RECURSIVE Lcs(_, _)
Lcs(a, b) ==
    IF a = <<>> \/ b = <<>> THEN 0
    ELSE IF Head(a) = Head(b) THEN 1 + Lcs(Tail(a), Tail(b))
    ELSE Max(Lcs(Tail(a), b), Lcs(a, Tail(b)))

\* Levenshtein.ratio: (lensum - distance) / lensum with substitutions of weight 2,
\* that is 2 * lcs / lensum; kept as a fraction
levenshtein_ratio(a, b) ==
    IF Len(a) + Len(b) = 0 THEN [num |-> 1, den |-> 1]
    ELSE [num |-> 2 * Lcs(a, b), den |-> Len(a) + Len(b)]

\* comparison of two similarities
SimGeq(x, y) == x.num * y.den >= y.num * x.den

\* min_similarity = 0.8
min_similarity == [num |-> 4, den |-> 5]

\* similarity 1.0 of an exact match

\* similarity 0.85 of a phonetic match

\* mutant: no exact branch, an equal name is scored by the fuzzy ratio
MatchKindNoExact(normalized, entry_name_norm) ==
    LET sim == levenshtein_ratio(normalized, entry_name_norm)
    IN  IF SimGeq(sim, min_similarity)
        THEN [match_type |-> "fuzzy", similarity |-> sim]
        ELSE IF _phonetic_equal(normalized, entry_name_norm)
        THEN [match_type |-> "phonetic", similarity |-> [num |-> 17, den |-> 20]]
        ELSE [match_type |-> "none", similarity |-> [num |-> 0, den |-> 1]]

\* body of the loop of match_sanctions_by_name for one entry with a non-empty name
MatchKind(normalized, entry_name_norm) ==
    IF entry_name_norm = normalized
    THEN [match_type |-> "exact", similarity |-> [num |-> 1, den |-> 1]]
    ELSE LET sim == levenshtein_ratio(normalized, entry_name_norm)
         IN  IF SimGeq(sim, min_similarity)
             THEN [match_type |-> "fuzzy", similarity |-> sim]
             ELSE IF _phonetic_equal(normalized, entry_name_norm)
             THEN [match_type |-> "phonetic", similarity |-> [num |-> 17, den |-> 20]]
             ELSE [match_type |-> "none", similarity |-> [num |-> 0, den |-> 1]]

\* priority = {"exact": 3, "fuzzy": 2, "phonetic": 1}
priority(match_type) ==
    CASE match_type = "exact" -> 3 [] match_type = "fuzzy" -> 2 [] match_type = "phonetic" -> 1

\* key(a) > key(b) for the sort key (priority, similarity)
KeyGreater(a, b) ==
    \/ priority(a.match_type) > priority(b.match_type)
    \/ /\ priority(a.match_type) = priority(b.match_type)
       /\ ~SimGeq(b.similarity, a.similarity)

\* the loop of match_sanctions_by_name: results in entry order
RECURSIVE CollectMatches(_, _, _, _)
CollectMatches(name, normalized, entries, i) ==
    IF i > Len(entries) THEN <<>>
    ELSE LET entry_name_norm == sanctions_loader_normalize(entries[i])
             k == MatchKind(normalized, entry_name_norm)
         IN  IF entry_name_norm = <<>> \/ k.match_type = "none"
             THEN CollectMatches(name, normalized, entries, i + 1)
             ELSE <<[entry |-> i, match_type |-> k.match_type,
                     similarity |-> k.similarity, matched_name |-> name]>>
                  \o CollectMatches(name, normalized, entries, i + 1)

\* mutant: sort ascending, then reverse the list; equal keys end in reverse order
RECURSIVE SortMatchesReversed(_)
SortMatchesReversed(rs) ==
    IF rs = <<>> THEN <<>>
    ELSE LET sorted == SortMatchesReversed(SubSeq(rs, 1, Len(rs) - 1))
             x  == rs[Len(rs)]
             ahead == {j \in 1..Len(sorted) : KeyGreater(sorted[j], x)}
             n  == Cardinality(ahead)
         IN  SubSeq(sorted, 1, n) \o <<x>> \o SubSeq(sorted, n + 1, Len(sorted))

\* results.sort(key=(priority, similarity), reverse=True): descending and stable, an
\* element goes behind every element whose key is greater or equal
RECURSIVE SortMatches(_)
SortMatches(rs) ==
    IF rs = <<>> THEN <<>>
    ELSE LET sorted == SortMatches(SubSeq(rs, 1, Len(rs) - 1))
             x  == rs[Len(rs)]
             ahead == {j \in 1..Len(sorted) : ~KeyGreater(x, sorted[j])}
             n  == Cardinality(ahead)
         IN  SubSeq(sorted, 1, n) \o <<x>> \o SubSeq(sorted, n + 1, Len(sorted))

\* match_sanctions_by_name(full_name) over the entries of get_sanctions().sanctions
match_sanctions_by_name(name, entries) ==
    LET normalized == sanctions_loader_normalize(name)
    IN  IF normalized = <<>> THEN <<>>
        ELSE SortMatches(CollectMatches(name, normalized, entries, 1))

\* ---- bounded inputs ----
MaxEntries == 3

ScreenedNames == {<<"A","b">>, <<" ","a","b"," ">>, <<"a","b","c","d">>, <<>>, <<" ">>}

EntryNames == {<<"a","b">>, <<"A","B"," ">>, <<"a","b","c">>, <<"a","b","d">>, <<"a","b","c","d","e">>, <<"a","b","c","d">>, <<"b","a">>, <<" ">>}

MatchInit ==
    /\ full_name \in ScreenedNames
    /\ sanctions \in SeqsUpTo(EntryNames, MaxEntries)
    /\ results = <<>>
    /\ mpc = "start"

MatchIdle ==
    /\ full_name = <<>>
    /\ sanctions = <<>>
    /\ results = <<>>
    /\ mpc = "idle"

\* one call match_sanctions_by_name(full_name)
MatchSanctionsByName ==
    /\ mpc = "start"
    /\ results' = match_sanctions_by_name(full_name, sanctions)
    /\ mpc' = "returned"
    /\ UNCHANGED <<full_name, sanctions, notMatch>>

MatchNext == MatchSanctionsByName

(***************************************************************************)
(* bulk_sanctions_matcher.py: find_sanction_candidates                     *)
(***************************************************************************)
\* lines 40-48: the confidence of a candidate, in tenths
overall_confidence(similarity) ==
    IF SimGeq(similarity, [num |-> 9, den |-> 10]) THEN 4
    ELSE IF SimGeq(similarity, [num |-> 7, den |-> 10]) THEN 2
    ELSE 0

\* lines 26-61: one candidate dict for each of the first 10 matches
Candidates(matches) ==
    [i \in 1..Min(10, Len(matches)) |->
        [id |-> matches[i].entry, match_type |-> matches[i].match_type,
         similarity |-> matches[i].similarity,
         overall_confidence |-> overall_confidence(matches[i].similarity)]]

\* mutant: sort ascending, then reverse the list; equal keys end in reverse order
RECURSIVE SortCandidatesReversed(_)
SortCandidatesReversed(cs) ==
    IF cs = <<>> THEN <<>>
    ELSE LET sorted == SortCandidatesReversed(SubSeq(cs, 1, Len(cs) - 1))
             x  == cs[Len(cs)]
             ahead == {j \in 1..Len(sorted) :
                          sorted[j].overall_confidence > x.overall_confidence}
             n  == Cardinality(ahead)
         IN  SubSeq(sorted, 1, n) \o <<x>> \o SubSeq(sorted, n + 1, Len(sorted))

\* candidates.sort(key=overall_confidence, reverse=True): descending and stable
RECURSIVE SortCandidates(_)
SortCandidates(cs) ==
    IF cs = <<>> THEN <<>>
    ELSE LET sorted == SortCandidates(SubSeq(cs, 1, Len(cs) - 1))
             x  == cs[Len(cs)]
             ahead == {j \in 1..Len(sorted) :
                          sorted[j].overall_confidence >= x.overall_confidence}
             n  == Cardinality(ahead)
         IN  SubSeq(sorted, 1, n) \o <<x>> \o SubSeq(sorted, n + 1, Len(sorted))

\* find_sanction_candidates, given what match_sanctions_by_name returned
find_sanction_candidates(matches) ==
    LET sorted == SortCandidates(Candidates(matches))
    IN  SubSeq(sorted, 1, Min(5, Len(sorted)))

\* ---- bounded inputs ----
MaxCandEntries == 6

\* the screened name, and entries that are an exact match, a fuzzy match of ratio
\* 10/11, a fuzzy match of ratio 8/9 and a phonetic match of it
CandName == <<"a","b","c","d","e">>

CandEntryNames == {<<"a","b","c","d","e">>, <<"a","b","c","d","e","f">>,
                   <<"a","b","c","d">>, <<"a","x">>}

\* a reference list of eleven matching entries with the exact match last
ElevenEntries == [i \in 1..11 |-> IF i = 11 THEN <<"a","b","c","d","e">>
                                  ELSE IF i < 4 THEN <<"a","x">>
                                  ELSE IF i < 8 THEN <<"a","b","c","d">>
                                  ELSE <<"a","b","c","d","e","f">>]

CandInit ==
    /\ full_name = CandName
    /\ sanctions \in SeqsUpTo(CandEntryNames, MaxCandEntries) \cup {ElevenEntries}
    /\ results = <<>>
    /\ mpc = "start"
    /\ top_candidates = <<>>

CandIdle == top_candidates = <<>>

\* find_sanction_candidates(risk_input) for a record with fullName full_name
FindSanctionCandidates ==
    /\ mpc = "start"
    /\ \E matches \in {match_sanctions_by_name(full_name, sanctions)} :
          /\ results' = matches
          /\ top_candidates' = find_sanction_candidates(matches)
    /\ mpc' = "returned"
    /\ UNCHANGED <<full_name, sanctions, notMatchCand>>

CandNext == FindSanctionCandidates

(***************************************************************************)
(* Threads calling BulkRiskEngine._score_device_reuse on one engine.       *)
(* A thread switch may fall between any two statements of the function;    *)
(* each statement below is one step.                                       *)
(***************************************************************************)
NumThreads == 2

Threads == 1..NumThreads

ThreadDevice == "d1"

\* size of the list the index holds for the device, 0 when it holds none
ListSize(usage) == IF ThreadDevice \in DOMAIN usage THEN Len(usage[ThreadDevice]) ELSE 0

\* every running call sees the size the index has after a step
Observe(usage, pcs) ==
    [t \in Threads |-> IF pcs[t] = "done" THEN tseen[t] ELSE tseen[t] \cup {ListSize(usage)}]

ConcInit ==
    /\ tpc = [t \in Threads |-> "test_device"]
    /\ tcustomer \in [Threads -> {"c1", "c2"}]
    /\ tcount = [t \in Threads |-> -1]
    /\ tseen = [t \in Threads |-> {ListSize(device_usage)}]

ConcIdle ==
    /\ tpc = [t \in Threads |-> "idle"]
    /\ tcustomer = [t \in Threads |-> ""]
    /\ tcount = [t \in Threads |-> -1]
    /\ tseen = [t \in Threads |-> {}]

\* line 142: if device_id not in self._device_usage
TestDevice(t) ==
    /\ tpc[t] = "test_device"
    /\ tpc' = [tpc EXCEPT ![t] = IF ThreadDevice \notin DOMAIN device_usage
                                 THEN "create_list" ELSE "test_customer"]
    /\ UNCHANGED <<device_usage, tcustomer, tcount, tseen, notConc>>

\* line 143: self._device_usage[device_id] = []
CreateList(t) ==
    /\ tpc[t] = "create_list"
    /\ device_usage' = (ThreadDevice :> <<>>) @@ device_usage
    /\ tpc' = [tpc EXCEPT ![t] = "test_customer"]
    /\ tseen' = Observe(device_usage', tpc)
    /\ UNCHANGED <<tcustomer, tcount, notConc>>

\* line 145: if customer_no not in self._device_usage[device_id]
TestCustomer(t) ==
    /\ tpc[t] = "test_customer"
    /\ tpc' = [tpc EXCEPT ![t] = IF tcustomer[t] \notin Range(device_usage[ThreadDevice])
                                 THEN "append" ELSE "count"]
    /\ UNCHANGED <<device_usage, tcustomer, tcount, tseen, notConc>>

\* line 146: self._device_usage[device_id].append(customer_no)
AppendCustomer(t) ==
    /\ tpc[t] = "append"
    /\ device_usage' = [device_usage EXCEPT ![ThreadDevice] = Append(@, tcustomer[t])]
    /\ tpc' = [tpc EXCEPT ![t] = "count"]
    /\ tseen' = Observe(device_usage', tpc)
    /\ UNCHANGED <<tcustomer, tcount, notConc>>

\* line 149: reuse_count = len(self._device_usage[device_id]), then the return
CountReuse(t) ==
    /\ tpc[t] = "count"
    /\ tcount' = [tcount EXCEPT ![t] = Len(device_usage[ThreadDevice])]
    /\ tpc' = [tpc EXCEPT ![t] = "done"]
    /\ UNCHANGED <<device_usage, tcustomer, tseen, notConc>>

ConcNext ==
    \E t \in Threads :
        TestDevice(t) \/ CreateList(t) \/ TestCustomer(t) \/ AppendCustomer(t) \/ CountReuse(t)

(***************************************************************************)
(* The text normalizers (sanctions_loader._normalize,                      *)
(* PureRiskScorer._normalize) and PureRiskScorer._check_fatf_country,      *)
(* each applied to two strings and, for the normalizers, to its own result *)
(***************************************************************************)
\* ---- bounded inputs ----
MaxTextLen == 3

\* every string of at most MaxTextLen characters over a lower-case letter, an
\* upper-case letter, a space and a tab, and country cells as they occur in uploads
Texts ==
    SeqsUpTo({"a", "A", " ", "\t"}, MaxTextLen)
    \cup { <<"N","O","R","T","H"," ","K","O","R","E","A">>
         , <<"N","O","R","T","H"," "," ","K","O","R","E","A">>
         , <<" ","n","o","r","t","h"," ","k","o","r","e","a"," ">>
         , <<"K","o","r","e","a"," ","N","o","r","t","h">>
         , <<"I","R","A","N">>, <<" "," ","I","r","a","n"," ">>, <<"i","r">>, <<"I","R","N">>
         , <<"T","u","r","k","e","y">>, <<"T","R"," ">>, <<"t","u","r">>
         , <<"S","O","U","T","H","\t","S","U","D","A","N">>
         , <<"S","o","u","t","h"," ","S","u","d","a","n">>
         , <<"U","Z","B">>, <<"G","E","R","M","A","N","Y">>
         }

NoText == [fn |-> "", a |-> <<>>, b |-> <<>>, again |-> <<>>]

TextInit ==
    /\ text_a \in Texts
    /\ text_b \in Texts
    /\ text_out = NoText
    /\ xpc = "start"

TextIdle ==
    /\ text_a = <<>>
    /\ text_b = <<>>
    /\ text_out = NoText
    /\ xpc = "idle"

\* sanctions_loader._normalize(text_a), (text_b) and (its result on text_a)
NormalizeLoader ==
    /\ xpc = "start"
    /\ text_out' = [fn |-> "loader",
                    a |-> sanctions_loader_normalize(text_a),
                    b |-> sanctions_loader_normalize(text_b),
                    again |-> sanctions_loader_normalize(sanctions_loader_normalize(text_a))]
    /\ xpc' = "returned"
    /\ UNCHANGED <<text_a, text_b, notText>>

\* PureRiskScorer._normalize(text_a), (text_b) and (its result on text_a)
NormalizeScorer ==
    /\ xpc = "start"
    /\ text_out' = [fn |-> "scorer",
                    a |-> PureRiskScorer_normalize(text_a),
                    b |-> PureRiskScorer_normalize(text_b),
                    again |-> PureRiskScorer_normalize(PureRiskScorer_normalize(text_a))]
    /\ xpc' = "returned"
    /\ UNCHANGED <<text_a, text_b, notText>>

\* PureRiskScorer._check_fatf_country(text_a) and (text_b)
CheckFatfCountry ==
    /\ xpc = "start"
    /\ text_out' = [fn |-> "fatf",
                    a |-> PureRiskScorer_check_fatf_country(text_a),
                    b |-> PureRiskScorer_check_fatf_country(text_b),
                    again |-> <<>>]
    /\ xpc' = "returned"
    /\ UNCHANGED <<text_a, text_b, notText>>

TextNext == NormalizeLoader \/ NormalizeScorer \/ CheckFatfCountry

(***************************************************************************)
(* main.py: the startup event, then requests to /risk/from-db.             *)
(* sanctions_loader.py reads the reference files on the first request      *)
(* that needs them.                                                        *)
(***************************************************************************)
Sources == {"fatf", "un", "eu"}

\* ingest_fatf_json, ingest_un_html, ingest_eu_pdf: 0 chunks when the file is missing
\* or when reading or embedding raises (the exception is caught and printed)
ingest_file(source, present, embeds) ==
    IF source \notin present THEN {}
    ELSE IF ~embeds THEN {}
    ELSE {source}

\* ingest_all_sanctions: the three ingest calls in a row
ingest_all_sanctions(present, embeds) ==
    ingest_file("fatf", present, embeds)
        \cup ingest_file("un", present, embeds)
        \cup ingest_file("eu", present, embeds)

\* names of the entries the UN file and the EU file hold
UnEntries == << <<"a","b">> >>

EuEntries == << <<"a","b","c">>, <<"b","a">> >>

\* _SANCTIONS_CACHE = None
NoCache == [loaded |-> FALSE, raised |-> FALSE, un_entries |-> <<>>, eu_entries |-> <<>>]

\* _load_un_html / _load_eu_pdf: [] when the file is missing
load_entries(source, present, entries) == IF source \notin present THEN <<>> ELSE entries

\* load_sanctions: _load_fatf raises FileNotFoundError when its file is missing
load_sanctions(present) ==
    IF "fatf" \notin present
    THEN [NoCache EXCEPT !.raised = TRUE]
    ELSE [loaded |-> TRUE, raised |-> FALSE,
          un_entries |-> load_entries("un", present, UnEntries),
          eu_entries |-> load_entries("eu", present, EuEntries)]

\* get_sanctions: load on first use, keep the dataset in the cache
get_sanctions(cache, present) == IF ~cache.loaded THEN load_sanctions(present) ELSE cache

\* ---- bounded inputs ----
MaxRequests == 2

RequestNames == {<<"A","b">>, <<"z">>, <<>>}

StartInit ==
    /\ files \in SUBSET Sources
    /\ embed_ok \in BOOLEAN
    /\ doc_sources = {}
    /\ sanctions_cache = NoCache
    /\ spc = "startup"
    /\ answers = <<>>

StartIdle ==
    /\ files = {}
    /\ embed_ok = FALSE
    /\ doc_sources = {}
    /\ sanctions_cache = NoCache
    /\ spc = "idle"
    /\ answers = <<>>

\* on_startup: ingest_all_sanctions inside try/except; whatever happens is only
\* logged and the application starts serving
OnStartup ==
    /\ spc = "startup"
    /\ doc_sources' = ingest_all_sanctions(files, embed_ok)
    /\ spc' = "serving"
    /\ UNCHANGED <<files, embed_ok, sanctions_cache, answers, notStart>>

\* risk_from_db for a customer with this full name: the sanctions matching of
\* step 3 and the response; an exception of the loader ends the request with 500
RiskFromDb(name) ==
    /\ spc = "serving"
    /\ Len(answers) < MaxRequests
    /\ IF sanctions_loader_normalize(name) = <<>>
       THEN /\ answers' = Append(answers, [status |-> 200, matches |-> 0, entries |-> 0])
            /\ UNCHANGED sanctions_cache
       ELSE LET data == get_sanctions(sanctions_cache, files)
                entries == data.un_entries \o data.eu_entries
            IN  IF data.raised
                THEN /\ answers' = Append(answers, [status |-> 500, matches |-> 0, entries |-> 0])
                     /\ UNCHANGED sanctions_cache
                ELSE /\ answers' = Append(answers,
                                          [status |-> 200,
                                           matches |-> Len(match_sanctions_by_name(name, entries)),
                                           entries |-> Len(entries)])
                     /\ sanctions_cache' = data
    /\ UNCHANGED <<files, embed_ok, doc_sources, spc, notStart>>

StartNext == OnStartup \/ \E name \in RequestNames : RiskFromDb(name)

(***************************************************************************)
(* bulk_orchestrator.py: the loop of process_bulk_excel over the parsed     *)
(* records, with decide_sanctions and explain_risk                          *)
(***************************************************************************)
\* the ways the call of call_azure_chat_json in decide_sanctions can end; confidence
\* is in tenths
NoCandidates == [kind |-> "no_candidates", match |-> FALSE, confidence |-> 0]

DecisionOutcomes ==
    {NoCandidates, [NoCandidates EXCEPT !.kind = "raise"]}
        \cup [kind : {"answer"}, match : BOOLEAN, confidence : {0, 7, 8, 10}]

\* a breakdown the LLM may write into its answer
LlmBreakdown == [sanctions |-> 0, pep |-> 0, digitalFootprint |-> 0, device |-> 0, profile |-> 0]

\* the value under the key "risk" of the LLM answer: absent, a dict with the LLM's own
\* score, riskLevel and breakdown, or a value that is no dict (string, list, null)
NoRisk == [t |-> "absent", score |-> 0, riskLevel |-> "", breakdown |-> LlmBreakdown]

LlmRisks ==
    {NoRisk, [NoRisk EXCEPT !.t = "scalar"]}
        \cup [t : {"dict"}, score : {0, 55, 100}, riskLevel : {"LOW", "HIGH", "CRITICAL"},
              breakdown : {LlmBreakdown, [LlmBreakdown EXCEPT !.pep = 30]}]

\* the ways the call of call_azure_chat_json can end: AzureLlmError (request failed or
\* invalid JSON), or the value json.loads returned: an object, or a list or scalar
ExplainRaises == [kind |-> "raise", t |-> "none", risk |-> NoRisk]

ExplainResponses ==
    {ExplainRaises}
        \cup [kind : {"json"}, t : {"list", "scalar"}, risk : {NoRisk}]
        \cup [kind : {"json"}, t : {"dict"}, risk : LlmRisks]

\* the outcomes a batch run is checked with: a failure, and an answer whose risk
\* object claims score 0 and LOW
ExplanationOutcomes ==
    {ExplainRaises,
     [kind |-> "json", t |-> "dict",
      risk |-> [t |-> "dict", score |-> 0, riskLevel |-> "LOW", breakdown |-> LlmBreakdown]]}

\* decide_sanctions: without candidates a fixed dict and no LLM call; with candidates
\* the dict the LLM call returns (its exception is not caught here)
decide_sanctions(decision) ==
    IF decision.kind = "no_candidates" THEN NoCandidates ELSE decision

\* mutant: the score of a hard sanctions match is set to 90, without max()
EnforceCriticalSet90(er, sanctions_decision) ==
    IF sanctions_decision.match /\ sanctions_decision.confidence >= 8
    THEN [er EXCEPT !.score = 90, !.riskLevel = "CRITICAL"]
    ELSE er

\* process_bulk_excel lines 36-39: a hard sanctions match enforces CRITICAL
EnforceCritical(er, sanctions_decision) ==
    IF sanctions_decision.match /\ sanctions_decision.confidence >= 8
    THEN [er EXCEPT !.score = Max(er.score, 90), !.riskLevel = "CRITICAL"]
    ELSE er

\* _create_fallback_response: score, level and breakdown are read from engine_result
_create_fallback_response(er) ==
    [risk |-> [score |-> er.score, riskLevel |-> er.riskLevel, breakdown |-> er.breakdown],
     by |-> "fallback"]

\* mutant: the three assignments of lines 134-136 are missing
explain_risk_keeps_llm(er, explanation) ==
    IF explanation.kind = "raise" \/ explanation.t # "dict" \/ explanation.risk.t = "scalar"
    THEN _create_fallback_response(er)
    ELSE [risk |-> [score |-> explanation.risk.score, riskLevel |-> explanation.risk.riskLevel,
                    breakdown |-> explanation.risk.breakdown],
          by |-> "llm"]

\* explain_risk, lines 122-183.  The call raises: fallback.  The answer is no dict:
\* lines 130-131 raise TypeError: fallback.  "risk" is absent: it becomes {}.  "risk"
\* is no dict: the item assignment of line 134 raises TypeError: fallback.  Else the
\* risk dict of the answer gets score, riskLevel and breakdown of engine_result.
explain_risk(er, explanation) ==
    IF explanation.kind = "raise" THEN _create_fallback_response(er)
    ELSE IF explanation.t # "dict" THEN _create_fallback_response(er)
    ELSE IF explanation.risk.t = "scalar" THEN _create_fallback_response(er)
    ELSE LET risk0 == [score |-> explanation.risk.score,
                       riskLevel |-> explanation.risk.riskLevel,
                       breakdown |-> explanation.risk.breakdown]
         IN  [risk |-> [risk0 EXCEPT !.score = er.score, !.riskLevel = er.riskLevel,
                                     !.breakdown = er.breakdown],
              by |-> "llm"]

\* ---- bounded inputs ----
MaxBatch == 2

\* records of an upload: two customers on one device, a blacklisted customer and a
\* customer from a black-list country
BulkRecords ==
    { BatchRecord(<<"N">>, "d1", "c1"), BatchRecord(<<"N">>, "d1", "c2")
    , BatchRecord(<<"Y">>, "d2", "c3")
    , RiskInput(<< <<>>, <<"I","R">>, <<>>, <<>> >>, <<"N">>, <<>>, << <<>>, <<>>, <<>> >>,
                <<FALSE, <<>>, <<>>, <<>> >>, <<>>, "none", "d2", "c4") }

BulkInit ==
    /\ inputs \in SeqsUpTo(BulkRecords, MaxBatch)
    /\ pos = 1
    /\ run_usage = BulkRiskEngine_init
    /\ customers_output = <<>>
    /\ advice = <<>>
    /\ bpc = "loop"

BulkIdle ==
    /\ inputs = <<>>
    /\ pos = 0
    /\ run_usage = BulkRiskEngine_init
    /\ customers_output = <<>>
    /\ advice = <<>>
    /\ bpc = "idle"

\* one pass of the loop body, lines 32-97, for inputs[pos]: o is what assess
\* returned, er the engine_result dict after lines 36-39
ProcessRecord(decision, explanation) ==
    /\ bpc = "loop"
    /\ pos <= Len(inputs)
    /\ \E o \in {assess(inputs[pos], run_usage)} :
       \E er \in {EnforceCritical(o.out, decide_sanctions(decision))} :
       \E llm_result \in {explain_risk(er, explanation)} :
          /\ run_usage' = o.usage
          /\ IF decision.kind = "raise"
             THEN /\ bpc' = "raised"
                  /\ advice' = Append(advice, [engine |-> o.out, held |-> o.out,
                                               decision |-> decision,
                                               explanation |-> "none"])
                  /\ UNCHANGED <<pos, customers_output>>
             ELSE /\ customers_output' =
                         Append(customers_output,
                                [customerNo |-> inputs[pos].customerNo,
                                 risk |-> llm_result.risk, by |-> llm_result.by])
                  /\ advice' = Append(advice, [engine |-> o.out, held |-> er,
                                               decision |-> decision,
                                               explanation |-> explanation.kind])
                  /\ pos' = pos + 1
                  /\ UNCHANGED bpc
    /\ UNCHANGED <<inputs, notBulk>>

\* lines 99-160: the summary and the return of the response
ReturnResponse ==
    /\ bpc = "loop"
    /\ pos > Len(inputs)
    /\ bpc' = "returned"
    /\ UNCHANGED <<inputs, pos, run_usage, customers_output, advice, notBulk>>

BulkNext ==
    \/ \E decision \in DecisionOutcomes, explanation \in ExplanationOutcomes :
          ProcessRecord(decision, explanation)
    \/ ReturnResponse

(***************************************************************************)
(* agent_risk_explainer.py: one call of explain_risk                       *)
(***************************************************************************)
\* engine_result dicts: what assess returns for the records of an upload, as they are
\* and after lines 36-39 of process_bulk_excel enforced CRITICAL
EngineResults ==
    {assess(r, BulkRiskEngine_init).out : r \in BulkRecords}
        \cup {EnforceCritical(assess(r, BulkRiskEngine_init).out,
                              [kind |-> "answer", match |-> TRUE, confidence |-> 8]) :
                  r \in BulkRecords}

NoExplained == [risk |-> [score |-> -1, riskLevel |-> "", breakdown |-> LlmBreakdown],
                by |-> ""]

ExplainInit ==
    /\ explain_engine \in EngineResults
    /\ explain_llm = ExplainRaises
    /\ explain_out = NoExplained
    /\ ypc = "start"

ExplainIdle ==
    /\ explain_engine = NoResult
    /\ explain_llm = ExplainRaises
    /\ explain_out = NoExplained
    /\ ypc = "idle"

\* explain_risk(risk_input, engine_result, sanctions_decision) with this LLM outcome
ExplainRisk(response) ==
    /\ ypc = "start"
    /\ explain_llm' = response
    /\ explain_out' = explain_risk(explain_engine, response)
    /\ ypc' = "returned"
    /\ UNCHANGED <<explain_engine, notExplain>>

ExplainNext == \E response \in ExplainResponses : ExplainRisk(response)

(***************************************************************************)
(* storage.py: InMemoryDocStore.add_chunk and get_top_k.  An embedding is  *)
(* one number and the metric is the product with the query embedding.      *)
(* Heap positions are the 0-based positions of heapq; heap[p + 1] is the   *)
(* item at position p.  An item is (-score, chunk); the chunk is named by  *)
(* its position in the store.                                              *)
(***************************************************************************)
\* the metric argument: dot product of two one-number embeddings
metric(query_embedding, embedding) == query_embedding * embedding

Raised(heap) == [heap |-> heap, raised |-> TRUE]

Done(heap) == [heap |-> heap, raised |-> FALSE]

\* heapq._siftdown with newitem = the item to place; newitem < parent compares two
\* tuples: equal first components make Python compare the two chunk dicts, which
\* raises TypeError
RECURSIVE _siftdown(_, _, _, _)
_siftdown(heap, startpos, p, newitem) ==
    IF p > startpos
    THEN LET parentpos == (p - 1) \div 2
             parent == heap[parentpos + 1]
         IN  IF newitem.neg = parent.neg THEN Raised(heap)
             ELSE IF newitem.neg < parent.neg
                  THEN _siftdown([heap EXCEPT ![p + 1] = parent], startpos, parentpos, newitem)
                  ELSE Done([heap EXCEPT ![p + 1] = newitem])
    ELSE Done([heap EXCEPT ![p + 1] = newitem])

\* heapq.heappush
heappush(heap, item) == _siftdown(Append(heap, item), 0, Len(heap), item)

\* heapq._siftup from position p with newitem = the item to place: the smaller child
\* moves up until a leaf is reached, then _siftdown
RECURSIVE _siftup(_, _, _)
_siftup(heap, p, newitem) ==
    LET endpos == Len(heap)
        childpos == 2 * p + 1
        rightpos == childpos + 1
    IN  IF childpos < endpos
        THEN IF rightpos < endpos /\ heap[childpos + 1].neg = heap[rightpos + 1].neg
             THEN Raised(heap)
             ELSE LET c == IF rightpos < endpos /\ ~(heap[childpos + 1].neg < heap[rightpos + 1].neg)
                           THEN rightpos ELSE childpos
                  IN  _siftup([heap EXCEPT ![p + 1] = heap[c + 1]], c, newitem)
        ELSE _siftdown([heap EXCEPT ![p + 1] = newitem], 0, p, newitem)

\* heapq.heappop -> the popped item and the heap left
heappop(heap) ==
    LET lastelt == heap[Len(heap)]
        rest == SubSeq(heap, 1, Len(heap) - 1)
    IN  IF rest # <<>>
        THEN LET r == _siftup([rest EXCEPT ![1] = lastelt], 0, lastelt)
             IN  [item |-> rest[1], heap |-> r.heap, raised |-> r.raised]
        ELSE [item |-> lastelt, heap |-> <<>>, raised |-> FALSE]

\* get_top_k lines 65-71: push every chunk, pop once whenever the heap holds more than k
RECURSIVE PushChunks(_, _, _, _, _)
PushChunks(stored, query_embedding, k, i, heap) ==
    IF i > Len(stored) THEN Done(heap)
    ELSE LET score == metric(query_embedding, stored[i])
             pushed == heappush(heap, [neg |-> 0 - score, chunk |-> i])
         IN  IF pushed.raised THEN pushed
             ELSE IF Len(pushed.heap) > k
                  THEN LET popped == heappop(pushed.heap)
                       IN  IF popped.raised THEN Raised(popped.heap)
                           ELSE PushChunks(stored, query_embedding, k, i + 1, popped.heap)
                  ELSE PushChunks(stored, query_embedding, k, i + 1, pushed.heap)

\* get_top_k lines 74-79: pop until the heap is empty, similarity = -score
RECURSIVE PopChunks(_, _)
PopChunks(heap, out) ==
    IF heap = <<>> THEN [top |-> out, raised |-> FALSE]
    ELSE LET popped == heappop(heap)
         IN  IF popped.raised THEN [top |-> out, raised |-> TRUE]
             ELSE PopChunks(popped.heap,
                            Append(out, [chunk |-> popped.item.chunk,
                                         similarity |-> 0 - popped.item.neg]))

\* list.reverse()
Reverse(s) == [i \in 1..Len(s) |-> s[Len(s) + 1 - i]]

\* InMemoryDocStore.get_top_k -> [top, raised]
get_top_k(stored, query_embedding, k) ==
    IF stored = <<>> THEN [top |-> <<>>, raised |-> FALSE]
    ELSE LET pushed == PushChunks(stored, query_embedding, k, 1, <<>>)
         IN  IF pushed.raised THEN [top |-> <<>>, raised |-> TRUE]
             ELSE LET popped == PopChunks(pushed.heap, <<>>)
                  IN  [top |-> Reverse(popped.top), raised |-> popped.raised]

\* ---- bounded inputs ----
MaxChunks == 3

MaxK == 3

Embeddings == 1..3

QueryEmbedding == 1

NoTop == [k |-> 0, n |-> -1, raised |-> FALSE, top |-> <<>>]

\* doc_store = InMemoryDocStore()
StoreInit ==
    /\ chunks = <<>>
    /\ top_chunks = NoTop

\* doc_store.add_chunk(text, embedding)
AddChunk(embedding) ==
    /\ Len(chunks) < MaxChunks
    /\ chunks' = Append(chunks, embedding)
    /\ UNCHANGED <<top_chunks, notStore>>

\* doc_store.get_top_k(query_embedding, k, metric)
GetTopK(k) ==
    /\ LET r == get_top_k(chunks, QueryEmbedding, k)
       IN  top_chunks' = [k |-> k, n |-> Len(chunks), raised |-> r.raised, top |-> r.top]
    /\ UNCHANGED <<chunks, notStore>>

StoreNext == (\E embedding \in Embeddings : AddChunk(embedding)) \/ (\E k \in -1..MaxK : GetTopK(k))

(***************************************************************************)
(* sanctions_loader.py: get_sanctions and refresh_sanctions on the module  *)
(* global _SANCTIONS_CACHE, with a request inside match_sanctions_by_name  *)
(* in another thread.  Each bytecode that reads or rebinds the global is   *)
(* one step; load_sanctions builds a new object and touches no other.      *)
(***************************************************************************)
\* the entry names the reference files hold when load_sanctions reads them
FileContents == {<< <<"a","b">> >>, << <<"a","b">>, <<"b","a">> >>,
                 << <<"c">>, <<"a","b">>, <<"a","b","c">> >>}

\* load_sanctions: a new SanctionsDataset whose entries are new SanctionEntry objects
load_sanctions_object(objs, content) ==
    Append(objs, [i \in 1..Len(content) |-> [dataset |-> Len(objs) + 1, name |-> content[i]]])

\* mutant: the dataset in the cache is refilled in place and the global keeps its value
store_cache_in_place(objs, ref, new) ==
    IF ref = 0 THEN [objects |-> objs, cache_ref |-> new]
    ELSE [objects |-> [objs EXCEPT ![ref] = objs[new]], cache_ref |-> ref]

\* _SANCTIONS_CACHE = <the object load_sanctions returned>: the global is rebound
store_cache(objs, ref, new) == [objects |-> objs, cache_ref |-> new]

\* ---- bounded inputs ----
MaxRefreshes == 2

SnapInit ==
    /\ objects = <<>>
    /\ cache_ref = 0
    /\ qpc = "called"
    /\ qnew = 0
    /\ qdata = 0
    /\ qi = 1
    /\ compared = <<>>
    /\ obtained = <<>>
    /\ fpc = "out"
    /\ fnew = 0
    /\ refreshes = 0

SnapIdle ==
    /\ objects = <<>>
    /\ cache_ref = 0
    /\ qpc = "idle"
    /\ qnew = 0
    /\ qdata = 0
    /\ qi = 1
    /\ compared = <<>>
    /\ obtained = <<>>
    /\ fpc = "idle"
    /\ fnew = 0
    /\ refreshes = 0

\* get_sanctions, line 181: if _SANCTIONS_CACHE is None
GetTestNone ==
    /\ qpc = "called"
    /\ qpc' = IF cache_ref = 0 THEN "load" ELSE "return"
    /\ UNCHANGED <<objects, cache_ref, qnew, qdata, qi, compared, obtained, fpc, fnew,
                   refreshes, notSnap>>

\* get_sanctions, line 182, right-hand side: load_sanctions()
GetLoad ==
    /\ qpc = "load"
    /\ \E content \in FileContents : objects' = load_sanctions_object(objects, content)
    /\ qnew' = Len(objects) + 1
    /\ qpc' = "store"
    /\ UNCHANGED <<cache_ref, qdata, qi, compared, obtained, fpc, fnew, refreshes, notSnap>>

\* get_sanctions, line 182: the assignment to the global
GetStore ==
    /\ qpc = "store"
    /\ \E o \in {store_cache(objects, cache_ref, qnew)} :
          /\ objects' = o.objects
          /\ cache_ref' = o.cache_ref
    /\ qpc' = "return"
    /\ UNCHANGED <<qnew, qdata, qi, compared, obtained, fpc, fnew, refreshes, notSnap>>

\* get_sanctions, line 183: return _SANCTIONS_CACHE, and line 67: data = get_sanctions()
GetReturn ==
    /\ qpc = "return"
    /\ qdata' = cache_ref
    /\ obtained' = objects[cache_ref]
    /\ qi' = 1
    /\ qpc' = "loop"
    /\ UNCHANGED <<objects, cache_ref, qnew, compared, fpc, fnew, refreshes, notSnap>>

\* match_sanctions_by_name, lines 70-72: the loop takes the next entry of
\* data.sanctions and compares the name with it
CompareEntry ==
    /\ qpc = "loop"
    /\ qi <= Len(objects[qdata])
    /\ compared' = Append(compared, objects[qdata][qi])
    /\ qi' = qi + 1
    /\ UNCHANGED <<objects, cache_ref, qpc, qnew, qdata, obtained, fpc, fnew, refreshes,
                   notSnap>>

\* the loop is exhausted; the results are sorted and returned
MatchReturn ==
    /\ qpc = "loop"
    /\ qi > Len(objects[qdata])
    /\ qpc' = "done"
    /\ UNCHANGED <<objects, cache_ref, qnew, qdata, qi, compared, obtained, fpc, fnew,
                   refreshes, notSnap>>

\* refresh_sanctions, line 191, right-hand side: load_sanctions()
RefreshLoad ==
    /\ fpc = "out"
    /\ refreshes < MaxRefreshes
    /\ \E content \in FileContents : objects' = load_sanctions_object(objects, content)
    /\ fnew' = Len(objects) + 1
    /\ refreshes' = refreshes + 1
    /\ fpc' = "store"
    /\ UNCHANGED <<cache_ref, qpc, qnew, qdata, qi, compared, obtained, notSnap>>

\* refresh_sanctions, line 191: the assignment to the global, and the return
RefreshStore ==
    /\ fpc = "store"
    /\ \E o \in {store_cache(objects, cache_ref, fnew)} :
          /\ objects' = o.objects
          /\ cache_ref' = o.cache_ref
    /\ fpc' = "out"
    /\ UNCHANGED <<qpc, qnew, qdata, qi, compared, obtained, fnew, refreshes, notSnap>>

SnapNext ==
    \/ GetTestNone \/ GetLoad \/ GetStore \/ GetReturn \/ CompareEntry \/ MatchReturn
    \/ RefreshLoad \/ RefreshStore

(***************************************************************************)
(* excel_processor.py: the loop of process_excel_file over the data rows   *)
(***************************************************************************)
NotWritten == [risk_score |-> -1, risk_band |-> <<>>, reasons |-> <<>>]

\* _assess_customer_risk: the result of PureRiskScorer.assess_risk with the reason
\* text as the only element of reasons; any exception gives the fixed dict
_assess_customer_risk(row) ==
    IF row.kind = "assess_raises"
    THEN [risk_score |-> 50, risk_band |-> YELLOW, reasons |-> <<"ERROR_DURING_ASSESSMENT">>]
    ELSE LET scored == PureRiskScorer_assess_risk(row.rawRow)
         IN  [risk_score |-> scored.risk_score, risk_band |-> Upper(scored.risk_flag),
              reasons |-> <<scored.risk_reason>>]

\* mutant: the loop body has no except clause
process_row_no_except(row) ==
    IF row.kind = "empty"
    THEN [results |-> NotWritten, processed |-> 0, errors |-> 0, escaped |-> FALSE]
    ELSE IF row.kind = "extract_raises"
    THEN [results |-> NotWritten, processed |-> 0, errors |-> 0, escaped |-> TRUE]
    ELSE [results |-> _assess_customer_risk(row), processed |-> 1, errors |-> 0,
          escaped |-> FALSE]

\* the loop body, lines 310-346: an empty CustomerNo skips the row; an exception of
\* _extract_row_data reaches the except clause, which writes the fixed error result;
\* else the row is assessed and written
process_row(row) ==
    IF row.kind = "empty"
    THEN [results |-> NotWritten, processed |-> 0, errors |-> 0, escaped |-> FALSE]
    ELSE IF row.kind = "extract_raises"
    THEN [results |-> [risk_score |-> 50, risk_band |-> YELLOW,
                       reasons |-> <<"PROCESSING_ERROR">>],
          processed |-> 0, errors |-> 1, escaped |-> FALSE]
    ELSE [results |-> _assess_customer_risk(row), processed |-> 1, errors |-> 0,
          escaped |-> FALSE]

\* ---- bounded inputs ----
MaxRows == 3

\* data rows: without CustomerNo, a clean customer, a blacklisted customer, a row on
\* which assess_risk raises, and a row on which reading the cells raises
ExcelRows ==
    { [kind |-> "empty", rawRow |-> BatchRecord(<<"N">>, "", "").rawRow]
    , [kind |-> "ok", rawRow |-> BatchRecord(<<"N">>, "", "c1").rawRow]
    , [kind |-> "ok", rawRow |-> BatchRecord(<<"Y">>, "", "c2").rawRow]
    , [kind |-> "assess_raises", rawRow |-> BatchRecord(<<"N">>, "", "c3").rawRow]
    , [kind |-> "extract_raises", rawRow |-> BatchRecord(<<"N">>, "", "c4").rawRow] }

ExcelInit ==
    /\ sheet_rows \in SeqsUpTo(ExcelRows, MaxRows) \ {<<>>}
    /\ row_idx = 1
    /\ written = [i \in 1..Len(sheet_rows) |-> NotWritten]
    /\ processed_count = 0
    /\ error_count = 0
    /\ zpc = "loop"

ExcelIdle ==
    /\ sheet_rows = <<>>
    /\ row_idx = 0
    /\ written = <<>>
    /\ processed_count = 0
    /\ error_count = 0
    /\ zpc = "idle"

\* one pass of the loop of line 309 for the row row_idx
ProcessRow ==
    /\ zpc = "loop"
    /\ row_idx <= Len(sheet_rows)
    /\ \E o \in {process_row(sheet_rows[row_idx])} :
          IF o.escaped
          THEN /\ zpc' = "raised"
               /\ UNCHANGED <<row_idx, written, processed_count, error_count>>
          ELSE /\ written' = [written EXCEPT ![row_idx] = o.results]
               /\ processed_count' = processed_count + o.processed
               /\ error_count' = error_count + o.errors
               /\ row_idx' = row_idx + 1
               /\ UNCHANGED zpc
    /\ UNCHANGED <<sheet_rows, notExcel>>

\* lines 348-356: the workbook is saved and its bytes are returned
SaveWorkbook ==
    /\ zpc = "loop"
    /\ row_idx > Len(sheet_rows)
    /\ zpc' = "returned"
    /\ UNCHANGED <<sheet_rows, row_idx, written, processed_count, error_count, notExcel>>

ExcelNext == ProcessRow \/ SaveWorkbook

(***************************************************************************)
(* Specifications                                                          *)
(***************************************************************************)
Init ==
    /\ ReconIdle /\ BatchInit /\ MatchIdle /\ ConcIdle
    /\ TextIdle /\ StartIdle /\ BulkIdle /\ StoreInit /\ SnapIdle /\ ExplainIdle
    /\ CandIdle /\ ExcelIdle

Next == NewBatchRun \/ AssessRecord \/ ResetDeviceTracking

\* batch runs of the bulk engine, record after record
Spec == Init /\ [][Next]_vars

InitRecon ==
    /\ ReconInit /\ EngineIdle /\ MatchIdle /\ ConcIdle
    /\ TextIdle /\ StartIdle /\ BulkIdle /\ StoreInit /\ SnapIdle /\ ExplainIdle
    /\ CandIdle /\ ExcelIdle

\* one call of llm_score_sanctions
SpecRecon == InitRecon /\ [][ReconNext]_vars

InitScore ==
    /\ ReconIdle /\ ScoreInit /\ MatchIdle /\ ConcIdle
    /\ TextIdle /\ StartIdle /\ BulkIdle /\ StoreInit /\ SnapIdle /\ ExplainIdle
    /\ CandIdle /\ ExcelIdle

\* one record through BulkRiskEngine.assess and PureRiskScorer.assess_risk
SpecScore == InitScore /\ [][ScoreNext]_vars

InitMatch ==
    /\ ReconIdle /\ EngineIdle /\ MatchInit /\ ConcIdle
    /\ TextIdle /\ StartIdle /\ BulkIdle /\ StoreInit /\ SnapIdle /\ ExplainIdle
    /\ CandIdle /\ ExcelIdle

\* one call of match_sanctions_by_name
SpecMatch == InitMatch /\ [][MatchNext]_vars

InitConc ==
    /\ ReconIdle /\ EngineIdle /\ MatchIdle /\ ConcInit
    /\ TextIdle /\ StartIdle /\ BulkIdle /\ StoreInit /\ SnapIdle /\ ExplainIdle
    /\ CandIdle /\ ExcelIdle

\* threads inside _score_device_reuse of one engine
SpecConc == InitConc /\ [][ConcNext]_vars

InitText ==
    /\ ReconIdle /\ EngineIdle /\ MatchIdle /\ ConcIdle
    /\ TextInit /\ StartIdle /\ BulkIdle /\ StoreInit /\ SnapIdle /\ ExplainIdle
    /\ CandIdle /\ ExcelIdle

\* one function of the normalizers and the classifier applied to a pair of strings
SpecText == InitText /\ [][TextNext]_vars

InitStart ==
    /\ ReconIdle /\ EngineIdle /\ MatchIdle /\ ConcIdle
    /\ TextIdle /\ StartInit /\ BulkIdle /\ StoreInit /\ SnapIdle /\ ExplainIdle
    /\ CandIdle /\ ExcelIdle

\* the process from its start, then a few requests
SpecStart == InitStart /\ [][StartNext]_vars

InitBulk ==
    /\ ReconIdle /\ EngineIdle /\ MatchIdle /\ ConcIdle
    /\ TextIdle /\ StartIdle /\ BulkInit /\ StoreInit /\ SnapIdle /\ ExplainIdle
    /\ CandIdle /\ ExcelIdle

\* one run of process_bulk_excel over the parsed records
SpecBulk == InitBulk /\ [][BulkNext]_vars

InitStore ==
    /\ ReconIdle /\ EngineIdle /\ MatchIdle /\ ConcIdle
    /\ TextIdle /\ StartIdle /\ BulkIdle /\ StoreInit /\ SnapIdle /\ ExplainIdle
    /\ CandIdle /\ ExcelIdle

\* the document store: chunks are added and the top k are asked for
SpecStore == InitStore /\ [][StoreNext]_vars

InitSnap ==
    /\ ReconIdle /\ EngineIdle /\ MatchIdle /\ ConcIdle
    /\ TextIdle /\ StartIdle /\ BulkIdle /\ StoreInit /\ SnapInit /\ ExplainIdle
    /\ CandIdle /\ ExcelIdle

\* a request inside match_sanctions_by_name while refresh_sanctions runs
SpecSnap == InitSnap /\ [][SnapNext]_vars

InitExplain ==
    /\ ReconIdle /\ EngineIdle /\ MatchIdle /\ ConcIdle
    /\ TextIdle /\ StartIdle /\ BulkIdle /\ StoreInit /\ SnapIdle /\ ExplainInit
    /\ CandIdle /\ ExcelIdle

\* one call of explain_risk
SpecExplain == InitExplain /\ [][ExplainNext]_vars

InitCand ==
    /\ ReconIdle /\ EngineIdle /\ CandInit /\ ConcIdle
    /\ TextIdle /\ StartIdle /\ BulkIdle /\ StoreInit /\ SnapIdle /\ ExplainIdle
    /\ ExcelIdle

\* one call of find_sanction_candidates
SpecCand == InitCand /\ [][CandNext]_vars

InitExcel ==
    /\ ReconIdle /\ EngineIdle /\ MatchIdle /\ ConcIdle
    /\ TextIdle /\ StartIdle /\ BulkIdle /\ StoreInit /\ SnapIdle /\ ExplainIdle
    /\ CandIdle /\ ExcelInit

\* one run of process_excel_file over the data rows of a sheet; the loop is
\* sequential code that runs on until the function returns or raises
SpecExcel == InitExcel /\ [][ExcelNext]_vars /\ WF_vars(ExcelNext)

(***************************************************************************)
(* Properties of llm_score_sanctions                                       *)
(***************************************************************************)
\* the baseline as _baseline_sanctions_risk computed it for this call
Baseline0 == _baseline_sanctions_risk(profile, profile.matches, profile.local_blacklist_flag)

\* rank of a band in the order GREEN < YELLOW < RED
RankOf(b) == CASE b = GREEN -> 0 [] b = YELLOW -> 1 [] b = RED -> 2

AdvisoryFailed ==
    \/ advisory.kind \in {"raise", "unparsable"}
    \/ advisory.kind = "parsed" /\ advisory.score.t = "overflow"

AdvisoryReconciled == advisory.kind = "parsed" /\ advisory.score.t # "overflow"

\* C1: whatever the advisory outcome, the returned assessment has a score not below
\* the baseline score and a band not ranked below the baseline band.
C1_NeverDowngrade ==
    rpc = "returned" =>
        /\ result.risk_band \in {GREEN, YELLOW, RED}
        /\ result.risk_score >= Baseline0.risk_score
        /\ RankOf(result.risk_band) >= RankOf(Baseline0.risk_band)

\* a RED baseline met an advisory answer with score 0 and band GREEN
C1_Witness ==
    /\ rpc = "returned"
    /\ advisory.kind = "parsed"
    /\ advisory.score = IntVal(0)
    /\ advisory.band = BandStr(GREEN)
    /\ Baseline0.risk_band = RED
    /\ result.risk_score = Baseline0.risk_score

\* the advisory score as the claim counts it: clamped to 0..100 when it is an integer,
\* the baseline score when it is missing or no integer
CountedScore ==
    IF advisory.score.t = "int" THEN Max(0, Min(100, advisory.score.v))
    ELSE Baseline0.risk_score

\* the advisory band as the claim counts it: one of the three bands (in any letter
\* case), else the baseline band
CountedBand ==
    IF advisory.band.t = "str" /\ Upper(advisory.band.v) \in {GREEN, YELLOW, RED}
    THEN Upper(advisory.band.v)
    ELSE Baseline0.risk_band

ReconciledAsClaimed ==
    /\ result.risk_score = Max(Baseline0.risk_score, CountedScore)
    /\ result.risk_band = IF RankOf(Baseline0.risk_band) >= RankOf(CountedBand)
                          THEN Baseline0.risk_band ELSE CountedBand
    /\ result.risk_score \in 0..100
    /\ result.risk_band \in {GREEN, YELLOW, RED}

\* C17: on a parsable advisory result the reconciled score is max(baseline score,
\* advisory score clamped to 0..100), a missing or non-integer advisory score
\* counting as the baseline score, and the reconciled band is the higher-ranked of
\* the baseline band and the advisory band, a missing or unknown advisory band
\* counting as the baseline band; so the score is in 0..100 and the band is valid.
C17_ReconciledOnParsable ==
    (rpc = "returned" /\ advisory.kind = "parsed") => ReconciledAsClaimed

\* C17 as amended: the same for a parsable advisory result whose risk_score is
\* absent, an integer, or a value int() rejects with ValueError or TypeError.
C17_ReconciledOnConvertible ==
    (rpc = "returned" /\ AdvisoryReconciled) => ReconciledAsClaimed

\* a clean baseline (10, GREEN) met an advisory answer with score 250 and band
\* "yellow": the result is 100, YELLOW
C17_Witness ==
    /\ rpc = "returned"
    /\ advisory.kind = "parsed"
    /\ advisory.score = IntVal(250)
    /\ advisory.band = BandStr(Lower(YELLOW))
    /\ Baseline0.risk_band = GREEN
    /\ result.risk_score = 100
    /\ result.risk_band = YELLOW

\* every assessment llm_score_sanctions can return: baseline only, or with any outcome
\* of the advisory call
ReturnedAssessments ==
    {llm_score_sanctions(p, FALSE, NoAdvisory).ret : p \in Profiles}
        \cup {llm_score_sanctions(p, TRUE, adv).ret :
                  p \in Profiles,
                  adv \in Parsed \cup {[NoAdvisory EXCEPT !.kind = "raise"],
                                       [NoAdvisory EXCEPT !.kind = "unparsable"]}}

\* C22: the band is a function of the score with fixed thresholds: of two returned
\* assessments, the one with the strictly higher score never has the strictly
\* lower-ranked band.
C22_BandFunctionOfScore ==
    rpc = "returned" =>
        \A other \in ReturnedAssessments :
            /\ ~(/\ result.risk_score > other.risk_score
                 /\ RankOf(result.risk_band) < RankOf(other.risk_band))
            /\ ~(/\ other.risk_score > result.risk_score
                 /\ RankOf(other.risk_band) < RankOf(result.risk_band))

\* C23: reconciliation does not modify the baseline it is given: after the call, on
\* the success path and on every fallback path, the baseline dict holds the score,
\* the band and the reasons list it held before the call.
C23_BaselineUnmodified ==
    (rpc = "returned" /\ advisory.kind # "none") =>
        /\ baseline.risk_score = Baseline0.risk_score
        /\ baseline.risk_band = Baseline0.risk_band
        /\ baseline.reasons = Baseline0.reasons

\* C2: when the advisory call raises or its answer cannot be parsed, the result has the
\* baseline's score and band and the baseline's reasons followed by exactly one
\* fallback reason; a clean baseline stays at score 10.
C2_FallbackOnFailure ==
    (rpc = "returned" /\ AdvisoryFailed) =>
        /\ result.risk_score = Baseline0.risk_score
        /\ result.risk_band = Baseline0.risk_band
        /\ Len(result.reasons) = Len(Baseline0.reasons) + 1
        /\ SubSeq(result.reasons, 1, Len(Baseline0.reasons)) = Baseline0.reasons
        /\ result.reasons[Len(result.reasons)] \in {ReasonLlmFailed, ReasonOverlayError}
        /\ (Baseline0.reasons = <<ReasonNone>> => result.risk_score = 10)

\* the advisory call timed out on a clean baseline
C2_Witness ==
    /\ rpc = "returned"
    /\ advisory.kind = "raise"
    /\ Baseline0.risk_score = 10
    /\ result.reasons = <<ReasonNone, ReasonOverlayError>>

\* index of the first occurrence of x in s
FirstIndex(s, x) == CHOOSE i \in 1..Len(s) : s[i] = x /\ \A j \in 1..(i - 1) : s[j] # x

C3_WitnessRepeat ==
    /\ rpc = "returned"
    /\ AdvisoryReconciled
    /\ advisory.reasons = ListOf(<<IntItem("7"), StrItem("7")>>)
    /\ result.reasons = Append(Baseline0.reasons, "7")

(***************************************************************************)
(* Properties of BulkRiskEngine.assess and PureRiskScorer.assess_risk      *)
(***************************************************************************)
\* sum of the factor scores of a breakdown
BreakdownSum(b) == b.sanctions + b.pep + b.digitalFootprint + b.device + b.profile

\* C4: for every record and every state of the device-usage index, assess returns a
\* score in 0..100 and the riskLevel the thresholds 75 / 50 / 25 give for that score,
\* the blacklist short-circuit included.
C4_ScoreRangeAndBand ==
    epc \in {"assessed", "scored"} =>
        /\ engine_result.score \in 0..100
        /\ engine_result.riskLevel \in {"CRITICAL", "HIGH", "MEDIUM", "LOW"}
        /\ engine_result.riskLevel = "CRITICAL" <=> engine_result.score >= 75
        /\ engine_result.riskLevel = "HIGH" <=>
               (50 <= engine_result.score /\ engine_result.score < 75)
        /\ engine_result.riskLevel = "MEDIUM" <=>
               (25 <= engine_result.score /\ engine_result.score < 50)
        /\ engine_result.riskLevel = "LOW" <=> engine_result.score < 25

\* a record that is not blacklisted and whose factors add up to more than 100
C4_Witness ==
    /\ epc = "assessed"
    /\ ri.rawRow.LocalBlackListFlag \notin FlagCellsSet
    /\ BreakdownSum(engine_result.breakdown) > 100
    /\ engine_result.score = 100
    /\ engine_result.riskLevel = "CRITICAL"

\* C5: when the local-blacklist flag of a record is set, assess returns score 100,
\* CRITICAL and the single driver "Customer is on local blacklist", and assess_risk
\* returns score 100, RED and that single reason, whatever the other fields and the
\* device-usage index hold.
C5_LocalBlacklistShortCircuit ==
    ri.rawRow.LocalBlackListFlag \in FlagCellsSet =>
        /\ epc \in {"assessed", "scored"} =>
               /\ engine_result.score = 100
               /\ engine_result.riskLevel = "CRITICAL"
               /\ engine_result.drivers = << <<"Customer is on local blacklist">> >>
        /\ epc = "scored" =>
               /\ pure_result.risk_score = 100
               /\ pure_result.risk_flag = RED
               /\ pure_result.risk_reason = <<"Customer is on local blacklist">>

\* the flag cell " yes " on a record of a FATF black-list country with a politically
\* exposed person, in front of an index that already holds customers
C5_Witness ==
    /\ epc = "scored"
    /\ ri.rawRow.LocalBlackListFlag = <<" ","y","e","s"," ">>
    /\ ri.rawRow.Citizenship = <<"I","R">>
    /\ ri.rawRow.RiskFlag # <<>>
    /\ DOMAIN device_usage # {}
    /\ engine_result.score = 100
    /\ pure_result.risk_score = 100

\* the birth-country factor as the claim states it
BirthFactorClaimed(row) ==
    LET primary == PureRiskScorer_derive_country(row)
        birth == PureRiskScorer_normalize(row.BirthCountry)
        s == PureRiskScorer_check_fatf_country(birth)[1]
    IN  IF birth = <<>> \/ birth = primary THEN 0
        ELSE IF s > 0 THEN s \div 2
        ELSE 5

\* C18: for a record that is not blacklisted the birth country contributes half its
\* classifier score, rounded down, when it is non-empty, differs from the primary
\* country and is classified, the penalty 5 when it differs and is unclassified, and
\* 0 when it is empty or equals the primary country, in BulkRiskEngine.assess (the
\* sanctions part of the breakdown) and in PureRiskScorer.assess_risk (the score).
C18_BirthCountryFactor ==
    ri.rawRow.LocalBlackListFlag \notin FlagCellsSet =>
        /\ epc \in {"assessed", "scored"} =>
               engine_result.breakdown.sanctions =
                   _score_country_fatf(ri.rawRow)[1] + BirthFactorClaimed(ri.rawRow)
        /\ epc = "scored" =>
               pure_result.risk_score =
                   Min(100, _score_country_fatf(ri.rawRow)[1]
                            + BirthFactorClaimed(ri.rawRow)
                            + PureRiskScorer_check_pep_status(ri.rawRow)[1]
                            + PureRiskScorer_check_cash_intensive_occupation(ri.rawRow)[1]
                            + PureRiskScorer_check_document_expiry(ri.rawRow)[1]
                            + PureRiskScorer_check_resident_status(ri.rawRow)[1])

\* the occupation factor as the claim states it: the largest weight among the table
\* categories found in the main-account text or, written with spaces, in the
\* occupation text; without any, 15 when the cash-intensive check hits, else 0
OccupationClaimed(risk_input) ==
    LET main_account == Strip(Lower(risk_input.mainAccount))
        occupation == Strip(Lower(risk_input.occupation))
        hits == {i \in 1..Len(HIGH_RISK_OCCUPATIONS) :
                    \/ Contains(main_account, HIGH_RISK_OCCUPATIONS[i].key)
                    \/ Contains(occupation, ReplaceUnderscore(HIGH_RISK_OCCUPATIONS[i].key))}
    IN  IF hits # {}
        THEN HIGH_RISK_OCCUPATIONS[CHOOSE i \in hits : \A j \in hits :
                 HIGH_RISK_OCCUPATIONS[i].score >= HIGH_RISK_OCCUPATIONS[j].score].score
        ELSE IF PureRiskScorer_check_cash_intensive_occupation(risk_input.rawRow)[1] > 0
             THEN 15
             ELSE 0

\* C19: the profile part assess takes from _score_occupation is the maximum weight
\* over all table categories that match the main-account or the occupation text,
\* also when several match; only without a match the cash-intensive check counts,
\* with 15 on a hit and 0 otherwise.
C19_OccupationMaxWeight ==
    (epc \in {"assessed", "scored"} /\ ri.rawRow.LocalBlackListFlag \notin FlagCellsSet) =>
        engine_result.breakdown.profile = OccupationClaimed(ri)

(***************************************************************************)
(* Properties of the device-usage index                                    *)
(***************************************************************************)
\* the customers registered on device d since the last reset
CustomersOn(d) == {c \in CustomerNos : <<d, c>> \in registered}

\* C6: the list held for a device has one place for each distinct customer registered
\* on it since the last reset; registering a pair that is already present leaves the
\* index as it is; the count a registration returns is the number of distinct
\* customers registered on the device.
C6_DeviceCounting ==
    /\ [](\A d \in DeviceIds \ {""} :
            IF CustomersOn(d) = {}
            THEN d \notin DOMAIN device_usage
            ELSE /\ d \in DOMAIN device_usage
                 /\ Len(device_usage[d]) = Cardinality(CustomersOn(d))
                 /\ Range(device_usage[d]) = CustomersOn(d))
    /\ [][lastRepeat' => device_usage' = device_usage]_vars
    /\ []((lastOp = "assess" /\ lastCount # -1) =>
             lastCount = Cardinality(CustomersOn(ri.deviceId)))

\* a pair registered a second time on a device that holds three customers
C6_Witness ==
    /\ lastOp = "assess"
    /\ lastRepeat
    /\ lastCount = 3
    /\ Len(device_usage[ri.deviceId]) = 3

\* C21: assessing a record whose local-blacklist flag is set evaluates no other
\* factor (the breakdown is 100 for sanctions and 0 elsewhere, with one driver) and
\* leaves the device-usage index as it was: the customer is not registered on the
\* device, no count is taken, and so no later record of the batch sees it.
C21_BlacklistLeavesIndex ==
    [][(lastOp' = "assess" /\ ri'.rawRow.LocalBlackListFlag \in FlagCellsSet) =>
          /\ device_usage' = device_usage
          /\ lastCount' = -1
          /\ engine_result'.breakdown = [sanctions |-> 100, pep |-> 0, digitalFootprint |-> 0,
                                         device |-> 0, profile |-> 0]
          /\ Len(engine_result'.drivers) = 1]_vars

\* a blacklisted record of customer c1 on device d1 was assessed while the index
\* held another customer on d1: c1 is not in the list
C21_Witness ==
    /\ lastOp = "assess"
    /\ ri.rawRow.LocalBlackListFlag \in FlagCellsSet
    /\ ri.deviceId = "d1"
    /\ ri.customerNo = "c1"
    /\ "d1" \in DOMAIN device_usage
    /\ device_usage["d1"] = <<"c2">>
    /\ engine_result.score = 100

\* the distinct customers on the device of the record once the record is counted in
CustomersWith(usage, risk_input) ==
    {risk_input.customerNo} \cup
        (IF risk_input.deviceId \in DOMAIN usage THEN Range(usage[risk_input.deviceId]) ELSE {})

\* C25: when assess evaluates the device factor of a record (the record is not
\* blacklisted), the contribution is 20 when the distinct customers registered on its
\* device, this record included, number at least 5, 10 when they number 3 or 4, and
\* 0 otherwise; a record with an empty deviceId or customerNo contributes 0 and
\* leaves the index as it is; the list of a device never gets shorter.
C25_DeviceReuseFactor ==
    /\ [][(epc = "input" /\ epc' = "assessed" /\ ri.rawRow.LocalBlackListFlag \notin FlagCellsSet) =>
             IF ri.deviceId = "" \/ ri.customerNo = ""
             THEN /\ engine_result'.breakdown.device = 0
                  /\ device_usage' = device_usage
             ELSE /\ Cardinality(CustomersWith(device_usage, ri)) >= 5 =>
                         engine_result'.breakdown.device = 20
                  /\ Cardinality(CustomersWith(device_usage, ri)) \in {3, 4} =>
                         engine_result'.breakdown.device = 10
                  /\ Cardinality(CustomersWith(device_usage, ri)) < 3 =>
                         engine_result'.breakdown.device = 0
                  /\ Range(device_usage'[ri.deviceId]) = CustomersWith(device_usage, ri)
                  /\ Len(device_usage'[ri.deviceId]) = Cardinality(CustomersWith(device_usage, ri))]_vars
    /\ [][\A dv \in DOMAIN device_usage :
             /\ dv \in DOMAIN device_usage'
             /\ Len(device_usage'[dv]) >= Len(device_usage[dv])]_vars

\* the fifth customer on a device: the factor is 20
C25_Witness ==
    /\ epc = "assessed"
    /\ ri.rawRow.LocalBlackListFlag \notin FlagCellsSet
    /\ ri.deviceId = "d1"
    /\ Len(device_usage["d1"]) = 5
    /\ engine_result.breakdown.device = 20

\* C7: when the calls of all threads have returned, the list of the device holds the
\* customer of every call exactly once, and the count each call scored with is a size
\* the list had during that call.
C7_NoLostUpdate ==
    (\A t \in Threads : tpc[t] = "done") =>
        /\ \A t \in Threads :
              Cardinality({i \in 1..Len(device_usage[ThreadDevice]) :
                              device_usage[ThreadDevice][i] = tcustomer[t]}) = 1
        /\ \A t \in Threads : tcount[t] \in tseen[t]

\* C8: after reset_device_tracking, and at the start of every process_bulk_excel run,
\* the index holds no device, and the first registration that follows yields count 1
\* whatever was registered before.
C8_BatchIsolation ==
    /\ [](lastOp \in {"reset", "new"} => DOMAIN device_usage = {})
    /\ [][(lastOp \in {"reset", "new"} /\ lastOp' = "assess" /\ lastCount' # -1)
              => lastCount' = 1]_vars

\* the first registration after a reset or a new run that followed an index with a
\* device of three customers
C8_Witness ==
    /\ lastOp = "assess"
    /\ prevMax = 3
    /\ Cardinality(registered) = 1
    /\ lastCount = 1
    /\ device_usage = (ri.deviceId :> <<ri.customerNo>>)

(***************************************************************************)
(* Properties of match_sanctions_by_name                                   *)
(***************************************************************************)
\* the entries whose normalized name equals the normalized input name
EqualEntries ==
    {i \in 1..Len(sanctions) :
        sanctions_loader_normalize(sanctions[i]) = sanctions_loader_normalize(full_name)}

\* every entry of EqualEntries has an exact candidate of similarity 1.0, and exact
\* candidates come before all others
ExactFirst ==
    /\ \A i \in EqualEntries :
          \E k \in 1..Len(results) :
              /\ results[k].entry = i
              /\ results[k].match_type = "exact"
              /\ results[k].similarity.num = results[k].similarity.den
    /\ \A k, l \in 1..Len(results) :
          (results[k].match_type = "exact" /\ results[l].match_type \in {"fuzzy", "phonetic"})
              => k < l

KindRank(match_type) ==
    CASE match_type = "exact" -> 3 [] match_type = "fuzzy" -> 2 [] match_type = "phonetic" -> 1

C11_NormalizeIdempotent ==
    (xpc = "returned" /\ text_out.fn \in {"loader", "scorer"}) =>
        /\ text_out.again = text_out.a
        /\ (Strip(Lower(text_a)) = Strip(Lower(text_b)) => text_out.a = text_out.b)

\* PureRiskScorer._normalize was handed "  Iran " and "IRAN" and returned "IRAN" twice
C11_Witness ==
    /\ xpc = "returned"
    /\ text_out.fn = "scorer"
    /\ text_a = <<" "," ","I","r","a","n"," ">>
    /\ text_b = <<"I","R","A","N">>
    /\ text_out.a = <<"I","R","A","N">>
    /\ text_out.b = text_out.a

\* C12: two country strings that differ only in the amount of leading, trailing
\* or internal whitespace get the same score and reason from _check_fatf_country.
C12_WhitespaceAmount ==
    (xpc = "returned" /\ text_out.fn = "fatf" /\ JoinSplit(text_a) = JoinSplit(text_b)) =>
        text_out.a = text_out.b

\* C13: _check_fatf_country returns 80 exactly for strings whose normalized form
\* is in the black-list table, 50 exactly for those in the grey-list table and 0
\* for every other string, the empty one included; the tables are disjoint, so
\* two strings that normalize into the same table get the same answer.
C13_FatfScore ==
    (xpc = "returned" /\ text_out.fn = "fatf") =>
        LET na == PureRiskScorer_normalize(text_a)
            nb == PureRiskScorer_normalize(text_b)
        IN  /\ BLACK_LIST_COUNTRIES \cap GREY_LIST_COUNTRIES = {}
            /\ text_out.a[1] \in {0, 50, 80}
            /\ text_out.a[1] = 80 <=> na \in BLACK_LIST_COUNTRIES
            /\ text_out.a[1] = 50 <=> na \in GREY_LIST_COUNTRIES
            /\ text_a = <<>> => text_out.a[1] = 0
            /\ \A table \in {BLACK_LIST_COUNTRIES, GREY_LIST_COUNTRIES} :
                   (na \in table /\ nb \in table) => text_out.a = text_out.b

\* the classifier answered 50 for "Turkey" and for the ISO code "TR "
C13_Witness ==
    /\ xpc = "returned"
    /\ text_out.fn = "fatf"
    /\ text_a = <<"T","u","r","k","e","y">>
    /\ text_b = <<"T","R"," ">>
    /\ text_out.a[1] = 50
    /\ text_out.b[1] = 50

(***************************************************************************)
(* Properties of the process start                                         *)
(***************************************************************************)
\* C14: a missing reference file is fatal at start: the service serves only when
\* the country file and both sanctions sources are present, and no request is
\* answered with an assessment unless all of them are.
C14_LoadFailureFatal ==
    /\ spc = "serving" => files = Sources
    /\ \A i \in 1..Len(answers) : answers[i].status = 200 => files = Sources

(***************************************************************************)
(* Properties of process_bulk_excel                                        *)
(***************************************************************************)
\* C15: a failed advisory call, in the sanctions-decision step or in the
\* explanation step, never aborts the run: no exception leaves the function, and
\* at the return every record has one output entry, in input order, the entry of
\* a record whose advisory call failed carrying the score and level of the engine
\* result the loop holds.
C15_AdvisoryFailureKeepsBatch ==
    /\ bpc # "raised"
    /\ bpc = "returned" =>
          /\ Len(customers_output) = Len(inputs)
          /\ \A i \in 1..Len(inputs) :
                /\ customers_output[i].customerNo = inputs[i].customerNo
                /\ (advice[i].decision.kind = "raise" \/ advice[i].explanation = "raise") =>
                      /\ customers_output[i].risk.score = advice[i].held.score
                      /\ customers_output[i].risk.riskLevel = advice[i].held.riskLevel

(***************************************************************************)
(* Properties of InMemoryDocStore                                          *)
(***************************************************************************)
\* C16: get_top_k with k >= 0 returns min(k, number of stored chunks) chunks; no
\* chunk left out has a higher metric value than a returned one, and the returned
\* chunks are ordered from highest to lowest similarity.
C16_TopK ==
    (top_chunks.n = Len(chunks) /\ top_chunks.k >= 0) =>
        LET top == top_chunks.top
            returned == {top[i].chunk : i \in 1..Len(top)}
        IN  /\ ~top_chunks.raised
            /\ Len(top) = Min(top_chunks.k, Len(chunks))
            /\ Cardinality(returned) = Len(top)
            /\ \A c \in returned : top_chunks.raised \/
                   \A other \in (1..Len(chunks)) \ returned :
                       metric(QueryEmbedding, chunks[c]) >= metric(QueryEmbedding, chunks[other])
            /\ \A i, j \in 1..Len(top) : i < j => top[i].similarity >= top[j].similarity

\* the phonetic code as the claim states it: the first letter, then the class digits
\* of the following consonants whatever their letter case, equal neighbours
\* collapsed, cut to three digits and padded with "0"
SoundexClaimed(name) ==
    LET nm == sanctions_loader_normalize(name)
    IN  IF nm = <<>> THEN <<>>
        ELSE LET digits == SoundexDigits(Lower(Tail(nm)), <<>>)
                 code == <<UpperChar(nm[1])>> \o SubSeq(digits, 1, Min(3, Len(digits)))
             IN  code \o [i \in 1..(4 - Len(code)) |-> "0"]

\* C20: for a name with a non-empty normalized form _soundex returns the first
\* letter followed by the class digits of the following consonants, collapsed, cut
\* to three and padded with "0"; an entry is reported as a phonetic match only when
\* its code and the code of the screened name are equal.
C20_PhoneticCode ==
    mpc = "returned" =>
        /\ sanctions_loader_normalize(full_name) # <<>> =>
               _soundex(full_name) = SoundexClaimed(full_name)
        /\ \A i \in 1..Len(results) :
               results[i].match_type = "phonetic" =>
                   SoundexClaimed(full_name) = SoundexClaimed(sanctions[results[i].entry])
C26_LlmCannotChangeScore ==
    ypc = "returned" =>
        /\ explain_out.risk.score = explain_engine.score
        /\ explain_out.risk.riskLevel = explain_engine.riskLevel
        /\ explain_out.risk.breakdown = explain_engine.breakdown

\* the LLM answered with a risk object that claims score 0 and LOW for an engine
\* result of 100 and CRITICAL, and the answer was used
C26_Witness ==
    /\ ypc = "returned"
    /\ explain_out.by = "llm"
    /\ explain_llm.risk.t = "dict"
    /\ explain_llm.risk.score = 0
    /\ explain_llm.risk.riskLevel = "LOW"
    /\ explain_engine.score = 100
    /\ explain_out.risk.score = 100
    /\ explain_out.risk.riskLevel = "CRITICAL"
\* rank of a level in the order LOW < MEDIUM < HIGH < CRITICAL
LevelRank(level) ==
    CASE level = "LOW" -> 0 [] level = "MEDIUM" -> 1 [] level = "HIGH" -> 2
      [] level = "CRITICAL" -> 3

\* the decision is a hard match: match true with confidence at least 0.8
HardMatch(decision) ==
    decision.kind = "answer" /\ decision.match /\ decision.confidence >= 8

\* C27: for every customer in the output of process_bulk_excel the reported score is
\* not below the score assess produced and the reported level does not rank below
\* the level assess produced, whatever the two advisory calls returned; a decision
\* with match true and confidence >= 0.8 gives a score of at least 90 and CRITICAL,
\* every other decision leaves score and level as assess produced them.
C27_BulkNeverDowngrade ==
    \A i \in 1..Len(customers_output) :
        /\ customers_output[i].risk.score >= advice[i].engine.score
        /\ LevelRank(customers_output[i].risk.riskLevel) >= LevelRank(advice[i].engine.riskLevel)
        /\ IF HardMatch(advice[i].decision)
           THEN /\ customers_output[i].risk.score >= 90
                /\ customers_output[i].risk.riskLevel = "CRITICAL"
           ELSE /\ customers_output[i].risk.score = advice[i].engine.score
                /\ customers_output[i].risk.riskLevel = advice[i].engine.riskLevel

\* a record assess scored 0 and LOW met a hard match and an LLM explanation that
\* claimed LOW: it is reported with 90 and CRITICAL; the record after it, which
\* assess scored 100, met a hard match too and keeps 100
C27_Witness ==
    /\ Len(customers_output) = 2
    /\ advice[1].engine.score = 0
    /\ HardMatch(advice[1].decision)
    /\ customers_output[1].by = "llm"
    /\ customers_output[1].risk.score = 90
    /\ customers_output[1].risk.riskLevel = "CRITICAL"
    /\ advice[2].engine.score = 100
    /\ HardMatch(advice[2].decision)
    /\ customers_output[2].risk.score = 100
\* C28: for every customer in the output of process_bulk_excel, and for every result
\* of assess, the score is the sum of the five breakdown categories clamped to 0..100.
C28_BreakdownAccountsForScore ==
    /\ \A i \in 1..Len(advice) :
           advice[i].engine.score =
               Max(0, Min(100, BreakdownSum(advice[i].engine.breakdown)))
    /\ \A i \in 1..Len(customers_output) :
           customers_output[i].risk.score =
               Max(0, Min(100, BreakdownSum(customers_output[i].risk.breakdown)))
C29_WitnessEleven ==
    /\ mpc = "returned"
    /\ Len(results) = 11
    /\ Len(top_candidates) = 5
    /\ top_candidates[1].id = 11
(***************************************************************************)
(* Properties of process_excel_file                                        *)
(***************************************************************************)
\* C30: an exception raised while a data row is assessed never leaves
\* process_excel_file and never ends the loop: the row is written with score 50,
\* band YELLOW and one error reason, and every later row with a CustomerNo is
\* assessed and written; the run ends with the workbook returned.
C30_RowErrorIsolation ==
    /\ [](zpc # "raised")
    /\ [](\A i \in 1..Len(sheet_rows) :
            (i < row_idx /\ sheet_rows[i].kind \in {"assess_raises", "extract_raises"}) =>
                /\ written[i].risk_score = 50
                /\ written[i].risk_band = YELLOW
                /\ Len(written[i].reasons) = 1
                /\ written[i].reasons[1] \in {"ERROR_DURING_ASSESSMENT", "PROCESSING_ERROR"})
    /\ [](zpc = "returned" =>
            \A i \in 1..Len(sheet_rows) :
                /\ sheet_rows[i].kind # "empty" => written[i] # NotWritten
                /\ sheet_rows[i].kind = "ok" =>
                       written[i].risk_score =
                           PureRiskScorer_assess_risk(sheet_rows[i].rawRow).risk_score)
    /\ (zpc = "loop") ~> (zpc = "returned")

\* the first row failed while its cells were read, the second inside assess_risk,
\* and the blacklisted customer of the third row was still assessed and written
C30_Witness ==
    /\ zpc = "returned"
    /\ Len(sheet_rows) = 3
    /\ sheet_rows[1].kind = "extract_raises"
    /\ sheet_rows[2].kind = "assess_raises"
    /\ sheet_rows[3].kind = "ok"
    /\ written[1].reasons = <<"PROCESSING_ERROR">>
    /\ written[2].reasons = <<"ERROR_DURING_ASSESSMENT">>
    /\ written[3].risk_score = 100
    /\ written[3].risk_band = RED
    /\ error_count = 1
    /\ processed_count = 2

====
